---- MODULE Spec2Model ----
(***************************************************************************)
(* Model of the ultra-low-latency BBO ingress path: main(), the           *)
(* DPDKReceiver engine (initialize / warm_up / poll_loop / stop), the      *)
(* BBOPool slot pool, BBOParserFast::parse and convert_and_publish.        *)
(*                                                                         *)
(* Fixed-width integers are kept at their width as tuples of 16-bit limbs  *)
(* (most significant first): uint32_t is two limbs, uint64_t / size_t are  *)
(* four limbs.  Packets are byte sequences read at the wire offsets the    *)
(* code reads.                                                             *)
(***************************************************************************)
EXTENDS Integers, Sequences, FiniteSets, TLC

(***************************************************************************)
(* Bounds of the model.                                                    *)
(***************************************************************************)
MaxFrames == 2      \* frames the NIC delivers during one run
MaxBurst == 2       \* largest burst rx_burst returns in the model (<= BURST_SIZE)
MaxWarm == 1        \* largest warm-up count given on the command line
PoolBits == 1       \* the slot pool has 2^PoolBits slots
RingCap == 1        \* capacity of the shared ring, in records
TscStep == 4        \* cycles the counter advances between two reads
CalCycles == 20000000   \* cycles counted over the calibration window

(***************************************************************************)
(* Program constants.                                                      *)
(***************************************************************************)
BURST_SIZE == 32
BBO_MIN_SIZE == 28
BBO_FULL_SIZE == 44
SYMBOL_OFFSET == 0
BID_PRICE_OFFSET == 8
HAS_FPGA_TIMESTAMPS == 1
SYMBOL_MAX_LEN == 16
RTE_ETHER_TYPE_IPV4 == 2048
IPPROTO_UDP == 17
DEFAULT_UDP_PORT == 12345
ETH_SIZE == 14
IP_SIZE == 20
UDP_SIZE == 8
DUMMY_BBO_SIZE == 44
calibration_us == 10000
W16 == 2 ^ 16

POOL_SIZE == 2 ^ PoolBits

(***************************************************************************)
(* Fixed-width words: tuples of 16-bit limbs, most significant first.      *)
(***************************************************************************)
RECURSIVE WInc(_)
\* w + 1 modulo 2^(16 * Len(w))
WInc(w) ==
    IF w = << >> THEN << >>
    ELSE IF w[Len(w)] = W16 - 1
         THEN WInc(SubSeq(w, 1, Len(w) - 1)) \o <<0>>
         ELSE SubSeq(w, 1, Len(w) - 1) \o <<w[Len(w)] + 1>>

RECURSIVE WAddC(_, _, _)
\* a + b + carry modulo 2^(16 * Len(a)), for words of the same width
WAddC(a, b, c) ==
    IF a = << >> THEN << >>
    ELSE LET n == Len(a)
             s == a[n] + b[n] + c
         IN  WAddC(SubSeq(a, 1, n - 1), SubSeq(b, 1, n - 1), s \div W16)
                 \o <<s % W16>>

WAdd(a, b) == WAddC(a, b, 0)

\* the 32-bit and 64-bit words of a small natural number
U32(n) == <<n \div W16, n % W16>>
U64(n) == <<0, 0, n \div W16, n % W16>>

\* w < n for a natural n < 2^16
WLess(w, n) ==
    /\ \A i \in 1..(Len(w) - 1) : w[i] = 0
    /\ w[Len(w)] < n

\* the low 16 bits of w, masked with m - 1 (m a power of two <= 2^16)
WMask(w, m) == w[Len(w)] % m

(***************************************************************************)
(* Packet buffers.  An mbuf is the bytes of the frame followed by whatever *)
(* the buffer's data room held before (every byte past the frame reads as  *)
(* the stale byte).                                                        *)
(***************************************************************************)
ETHER_TYPE_OFFSET == 12
VERSION_IHL_OFFSET == 0
NEXT_PROTO_OFFSET == 9
DST_PORT_OFFSET == 2
DGRAM_LEN_OFFSET == 4

ByteAt(m, off) == IF off < Len(m.data) THEN m.data[off + 1] ELSE m.stale

\* rte_be_to_cpu_16 of the two bytes at off
BE16(m, off) == ByteAt(m, off) * 256 + ByteAt(m, off + 1)

\* __builtin_bswap32 of the four bytes at off, as a 32-bit word
BE32(m, off) ==
    << ByteAt(m, off) * 256 + ByteAt(m, off + 1),
       ByteAt(m, off + 2) * 256 + ByteAt(m, off + 3) >>

Zeros(n) == [i \in 1..n |-> 0]

\* memcpy(dst + off, bytes, Len(bytes))
Put(dst, off, bytes) ==
    [i \in 1..Len(dst) |->
        IF i > off /\ i <= off + Len(bytes) THEN bytes[i - off] ELSE dst[i]]

Bytes16(n) == <<n \div 256, n % 256>>
Bytes32(n) == <<n \div 16777216, (n \div 65536) % 256, (n \div 256) % 256, n % 256>>

(***************************************************************************)
(* BBODataFast and the slot pool (BBOPool<POOL_SIZE>).                     *)
(* A price is kept as its raw count of 1e-4 units (raw * PRICE_MULTIPLIER).*)
(***************************************************************************)
\* a pointer is the empty tuple (nullptr) or the one-tuple of what it points to
NULL == << >>

\* BBODataFast::clear(): memset(this, 0, 64)
clear ==
    [symbol |-> Zeros(8), bid_price |-> U32(0), ask_price |-> U32(0),
     bid_shares |-> U32(0), ask_shares |-> U32(0), spread |-> U32(0),
     timestamp_ns |-> 0, sequence |-> U32(0), valid |-> 0, flags |-> 0]

SPACE == 32

\* BBODataFast::set_symbol(sym, len): the first min(len, 8) bytes of sym,
\* space-padded to 8
set_symbol(sym, len) ==
    LET copy_len == IF len < 8 THEN len ELSE 8
    IN  [i \in 1..8 |-> IF i <= copy_len THEN sym[i] ELSE SPACE]

\* the loop of get_symbol: len is lowered while the byte before it is a
\* space or a NUL
RECURSIVE TrimmedLen(_, _)
TrimmedLen(symbol, len) ==
    IF len > 0 /\ (symbol[len] = SPACE \/ symbol[len] = 0)
    THEN TrimmedLen(symbol, len - 1)
    ELSE len

\* a get_symbol that stops at a NUL as it would at a letter
get_symbol_keeps_nul(symbol) ==
    LET len == CHOOSE k \in 0..8 :
                  /\ \A i \in (k + 1)..8 : symbol[i] = SPACE
                  /\ k > 0 => symbol[k] # SPACE
    IN  SubSeq(symbol, 1, len)

\* BBODataFast::get_symbol(): std::string(symbol, len)
get_symbol(symbol) == SubSeq(symbol, 1, TrimmedLen(symbol, 8))

\* BBOPool(): allocate_pool() then prefault_pool() clears every slot; head_{0}
BBOPool(hugepages) ==
    [pool_ |-> [i \in 0..(POOL_SIZE - 1) |-> clear],
     head_ |-> U32(0),
     using_hugepages_ |-> hugepages]

\* an acquire that advances the head by two
acquire_skips(pool) ==
    [idx |-> WMask(pool.head_, POOL_SIZE),
     pool |-> [pool EXCEPT !.head_ = WInc(WInc(pool.head_))]]

\* an acquire that never advances the head
acquire_stuck(pool) ==
    [idx |-> WMask(pool.head_, POOL_SIZE), pool |-> pool]

\* an acquire that allocates a fresh slot behind the array for every record
acquire_allocates(pool) ==
    LET n == Cardinality(DOMAIN pool.pool_) IN
    [idx |-> n,
     pool |-> [pool EXCEPT !.head_ = WInc(pool.head_),
                           !.pool_ = [i \in 0..n |-> IF i < n THEN pool.pool_[i]
                                                     ELSE clear]]]

\* head_.fetch_add(1) & (POOL_SIZE - 1)
acquire(pool) ==
    [idx |-> WMask(pool.head_, POOL_SIZE),
     pool |-> [pool EXCEPT !.head_ = WInc(pool.head_)]]

(***************************************************************************)
(* TSCCalibrator: ns_per_cycle_ = ns / cycles is kept as the pair of the   *)
(* calibration window in ns and the cycles counted over it.                *)
(***************************************************************************)
cycles_to_ns(tsc, cycles) == (cycles * tsc.ns) \div tsc.cycles

\* TSCCalibrator's member initializers: ns_per_cycle_(0), cycles_per_ns_(0),
\* base_tsc_(0); the two doubles are kept as the pair ns, cycles
TSCCalibrator0 == [ns |-> 0, cycles |-> 0, base |-> 0]

\* TSCCalibrator::calibrate() when rdtscp() returns start_tsc, end_tsc and
\* then base: ns_per_cycle_ = ns / cycles, cycles_per_ns_ = cycles / ns,
\* base_tsc_ = rdtscp()
calibrate(start_tsc, end_tsc, base) ==
    [ns |-> calibration_us * 1000, cycles |-> end_tsc - start_tsc, base |-> base]

\* TSCCalibrator(): the initializers, then calibrate()
TSCCalibrator == calibrate(0, CalCycles, CalCycles)

(***************************************************************************)
(* BBOParserFast::parse.  data is the mbuf, off the payload offset in it,  *)
(* len the size_t length handed in.                                        *)
(***************************************************************************)
\* a parser that takes its slot before it looks at the length
parse_acquires_first(data, off, len, pool, ts_ns, sequence) ==
    LET a == acquire(pool)
    IN  IF WLess(len, BBO_MIN_SIZE)
        THEN [bbo |-> NULL, pool |-> a.pool]
        ELSE [bbo |-> <<a.idx>>,
              pool |-> [a.pool EXCEPT !.pool_[a.idx] =
                           [clear EXCEPT !.sequence = sequence, !.valid = 1,
                                         !.timestamp_ns = ts_ns]]]

\* a parser that leaves the flags of the slot's previous use when the
\* payload is short
parse_keeps_flags(data, off, len, pool, ts_ns, sequence) ==
    IF WLess(len, BBO_MIN_SIZE)
    THEN [bbo |-> NULL, pool |-> pool]
    ELSE LET a == acquire(pool)
             filled ==
                 [symbol |-> [i \in 1..8 |-> ByteAt(data, off + SYMBOL_OFFSET + i - 1)],
                  bid_price |-> BE32(data, off + BID_PRICE_OFFSET),
                  ask_price |-> BE32(data, off + BID_PRICE_OFFSET + 8),
                  bid_shares |-> BE32(data, off + BID_PRICE_OFFSET + 4),
                  ask_shares |-> BE32(data, off + BID_PRICE_OFFSET + 12),
                  spread |-> BE32(data, off + BID_PRICE_OFFSET + 16),
                  timestamp_ns |-> ts_ns,
                  sequence |-> sequence,
                  valid |-> 1,
                  flags |-> IF ~WLess(len, BBO_FULL_SIZE)
                            THEN HAS_FPGA_TIMESTAMPS
                            ELSE a.pool.pool_[a.idx].flags]
         IN  [bbo |-> <<a.idx>>,
              pool |-> [a.pool EXCEPT !.pool_[a.idx] = filled]]

\* a parser that reads the ask price where the bid shares are, and back
parse_swaps_fields(data, off, len, pool, ts_ns, sequence) ==
    IF WLess(len, BBO_MIN_SIZE)
    THEN [bbo |-> NULL, pool |-> pool]
    ELSE LET a == acquire(pool)
             filled ==
                 [symbol |-> [i \in 1..8 |-> ByteAt(data, off + SYMBOL_OFFSET + i - 1)],
                  bid_price |-> BE32(data, off + BID_PRICE_OFFSET),
                  ask_price |-> BE32(data, off + BID_PRICE_OFFSET + 4),
                  bid_shares |-> BE32(data, off + BID_PRICE_OFFSET + 8),
                  ask_shares |-> BE32(data, off + BID_PRICE_OFFSET + 12),
                  spread |-> BE32(data, off + BID_PRICE_OFFSET + 16),
                  timestamp_ns |-> ts_ns,
                  sequence |-> sequence,
                  valid |-> 1,
                  flags |-> IF ~WLess(len, BBO_FULL_SIZE)
                            THEN HAS_FPGA_TIMESTAMPS ELSE 0]
         IN  [bbo |-> <<a.idx>>,
              pool |-> [a.pool EXCEPT !.pool_[a.idx] = filled]]

\* a parser that rejects symbols with bytes outside 0x20..0x7E
parse_validates(data, off, len, pool, ts_ns, sequence) ==
    IF WLess(len, BBO_MIN_SIZE)
       \/ \E i \in 0..7 : ByteAt(data, off + i) < 32 \/ ByteAt(data, off + i) > 126
    THEN [bbo |-> NULL, pool |-> pool]
    ELSE LET a == acquire(pool)
             filled ==
                 [symbol |-> [i \in 1..8 |-> ByteAt(data, off + SYMBOL_OFFSET + i - 1)],
                  bid_price |-> BE32(data, off + BID_PRICE_OFFSET),
                  ask_price |-> BE32(data, off + BID_PRICE_OFFSET + 8),
                  bid_shares |-> BE32(data, off + BID_PRICE_OFFSET + 4),
                  ask_shares |-> BE32(data, off + BID_PRICE_OFFSET + 12),
                  spread |-> BE32(data, off + BID_PRICE_OFFSET + 16),
                  timestamp_ns |-> ts_ns,
                  sequence |-> sequence,
                  valid |-> 1,
                  flags |-> IF ~WLess(len, BBO_FULL_SIZE)
                            THEN HAS_FPGA_TIMESTAMPS ELSE 0]
         IN  [bbo |-> <<a.idx>>,
              pool |-> [a.pool EXCEPT !.pool_[a.idx] = filled]]

parse(data, off, len, pool, ts_ns, sequence) ==
    IF WLess(len, BBO_MIN_SIZE)
    THEN [bbo |-> NULL, pool |-> pool]
    ELSE LET a == acquire(pool)
             filled ==
                 [symbol |-> [i \in 1..8 |-> ByteAt(data, off + SYMBOL_OFFSET + i - 1)],
                  bid_price |-> BE32(data, off + BID_PRICE_OFFSET),
                  ask_price |-> BE32(data, off + BID_PRICE_OFFSET + 8),
                  bid_shares |-> BE32(data, off + BID_PRICE_OFFSET + 4),
                  ask_shares |-> BE32(data, off + BID_PRICE_OFFSET + 12),
                  spread |-> BE32(data, off + BID_PRICE_OFFSET + 16),
                  timestamp_ns |-> ts_ns,
                  sequence |-> sequence,
                  valid |-> 1,
                  flags |-> IF ~WLess(len, BBO_FULL_SIZE)
                            THEN HAS_FPGA_TIMESTAMPS ELSE 0]
         IN  [bbo |-> <<a.idx>>,
              pool |-> [a.pool EXCEPT !.pool_[a.idx] = filled]]

(***************************************************************************)
(* The shared ring (disruptor::BboRingBuffer) is outside this repository:  *)
(* a bounded single-producer queue whose try_publish refuses when full.    *)
(***************************************************************************)
try_publish(ring, bbo) ==
    IF Len(ring) < RingCap
    THEN [ok |-> TRUE, ring |-> Append(ring, bbo)]
    ELSE [ok |-> FALSE, ring |-> ring]


\* a conversion that marks flagged records in the first timestamp field
to_gateway_marks_flagged(fast) ==
    [symbol |-> [i \in 1..SYMBOL_MAX_LEN |->
                    IF i <= 8 THEN fast.symbol[i]
                    ELSE IF i = SYMBOL_MAX_LEN THEN 0 ELSE SPACE],
     bid_price |-> fast.bid_price, ask_price |-> fast.ask_price,
     bid_shares |-> fast.bid_shares, ask_shares |-> fast.ask_shares,
     spread |-> fast.spread,
     timestamp_ns |-> fast.timestamp_ns,
     valid |-> (fast.valid # 0),
     fpga_ts_t1 |-> fast.flags, fpga_ts_t2 |-> 0, fpga_ts_t3 |-> 0, fpga_ts_t4 |-> 0,
     fpga_latency_a_us |-> 0, fpga_latency_b_us |-> 0, fpga_latency_us |-> 0,
     fpga_rx_timestamp |-> 0, fpga_tx_timestamp |-> 0]

\* the gateway::BBOData built by convert_and_publish from a fast record
to_gateway(fast) ==
    [symbol |-> [i \in 1..SYMBOL_MAX_LEN |->
                    IF i <= 8 THEN fast.symbol[i]
                    ELSE IF i = SYMBOL_MAX_LEN THEN 0 ELSE SPACE],
     bid_price |-> fast.bid_price, ask_price |-> fast.ask_price,
     bid_shares |-> fast.bid_shares, ask_shares |-> fast.ask_shares,
     spread |-> fast.spread,
     timestamp_ns |-> fast.timestamp_ns,
     valid |-> (fast.valid # 0),
     fpga_ts_t1 |-> 0, fpga_ts_t2 |-> 0, fpga_ts_t3 |-> 0, fpga_ts_t4 |-> 0,
     fpga_latency_a_us |-> 0, fpga_latency_b_us |-> 0, fpga_latency_us |-> 0,
     fpga_rx_timestamp |-> 0, fpga_tx_timestamp |-> 0]

\* a publisher that never counts a full ring
convert_and_publish_uncounted(fast, ring, st, cfg) ==
    LET bbo == to_gateway(fast)
        r == try_publish(ring, bbo)
    IN  [ring |-> r.ring, stats |-> st,
         tried |-> << [bbo |-> bbo, ok |-> r.ok] >>, ret |-> NULL]

\* a publisher that, when the ring is full, writes the new record over the
\* one stored last
convert_and_publish_overwrites(fast, ring, st, cfg) ==
    LET bbo == to_gateway(fast)
        r == try_publish(ring, bbo)
    IN  [ring |-> IF r.ok \/ ring = << >> THEN r.ring
                  ELSE [ring EXCEPT ![Len(ring)] = bbo],
         stats |-> IF ~r.ok /\ cfg.enable_stats
                   THEN [st EXCEPT !.ring_buffer_full = WInc(@)]
                   ELSE st,
         tried |-> << [bbo |-> bbo, ok |-> r.ok] >>,
         ret |-> NULL]

\* a publisher that offers the record a second time when the ring was full
convert_and_publish_retries(fast, ring, st, cfg) ==
    LET bbo == to_gateway(fast)
        r == try_publish(ring, bbo)
        r2 == try_publish(r.ring, bbo)
    IN  IF r.ok
        THEN [ring |-> r.ring, stats |-> st,
              tried |-> << [bbo |-> bbo, ok |-> TRUE] >>, ret |-> NULL]
        ELSE [ring |-> r2.ring,
              stats |-> IF ~r2.ok /\ cfg.enable_stats
                        THEN [st EXCEPT !.ring_buffer_full = WInc(@)]
                        ELSE st,
              tried |-> << [bbo |-> bbo, ok |-> FALSE], [bbo |-> bbo, ok |-> r2.ok] >>,
              ret |-> NULL]

\* a publisher that counts a record the ring refused as a dropped packet
convert_and_publish_counts_dropped(fast, ring, st, cfg) ==
    LET bbo == to_gateway(fast)
        r == try_publish(ring, bbo)
    IN  [ring |-> r.ring,
         stats |-> IF ~r.ok /\ cfg.enable_stats
                   THEN [st EXCEPT !.ring_buffer_full = WInc(@),
                                   !.packets_dropped = WInc(@)]
                   ELSE st,
         tried |-> << [bbo |-> bbo, ok |-> r.ok] >>,
         ret |-> NULL]

\* DPDKReceiver::convert_and_publish, a void function: tried lists the calls
\* of try_publish it made (the record handed in, the answer), ret is what
\* its caller gets back (NULL: nothing, else a one-tuple holding the value)
convert_and_publish(fast, ring, st, cfg) ==
    LET bbo == to_gateway(fast)
        r == try_publish(ring, bbo)
    IN  [ring |-> r.ring,
         stats |-> IF ~r.ok /\ cfg.enable_stats
                   THEN [st EXCEPT !.ring_buffer_full = WInc(@)]
                   ELSE st,
         tried |-> << [bbo |-> bbo, ok |-> r.ok] >>,
         ret |-> NULL]

(***************************************************************************)
(* DPDKReceiver::process_packet on one packet buffer m, with ts the value  *)
(* rdtsc() returned on entry.  r holds the members the function uses:      *)
(* config, tsc, stats, pool, sequence, and the ring ring_buffer_ points to.*)
(* The result holds their new values and ev, a record of what was done.    *)
(***************************************************************************)
\* size_t payload_len = be16(dgram_len) - sizeof(rte_udp_hdr), in 64 bits
payload_len(dgram_len) ==
    IF dgram_len >= UDP_SIZE
    THEN U64(dgram_len - UDP_SIZE)
    ELSE <<W16 - 1, W16 - 1, W16 - 1, W16 + dgram_len - UDP_SIZE>>

Filtered(r) ==
    [stats |-> r.stats, pool |-> r.pool, sequence |-> r.sequence, ring |-> r.ring,
     ev |-> [frame |-> 0, passed |-> FALSE, len |-> NULL, seq |-> NULL, bbo |-> NULL,
             tried |-> NULL, ret |-> NULL]]

\* a variant that counts the frame as received before the filters
process_packet_counts_first(m, ts, r) ==
    LET counted == [r EXCEPT !.stats.packets_received = WInc(@)] IN
    IF BE16(m, ETHER_TYPE_OFFSET) # RTE_ETHER_TYPE_IPV4 THEN Filtered(counted)
    ELSE IF ByteAt(m, ETH_SIZE + NEXT_PROTO_OFFSET) # IPPROTO_UDP THEN Filtered(counted)
    ELSE
    LET ihl == (ByteAt(m, ETH_SIZE + VERSION_IHL_OFFSET) % 16) * 4
        udp == ETH_SIZE + ihl
    IN
    IF BE16(m, udp + DST_PORT_OFFSET) # r.config.udp_port THEN Filtered(counted)
    ELSE
    LET payload == udp + UDP_SIZE
        len == payload_len(BE16(m, udp + DGRAM_LEN_OFFSET))
        st1 == counted.stats
        ts_ns == cycles_to_ns(r.tsc, ts)
        p == parse(m, payload, len, r.pool, ts_ns, r.sequence)
        seq1 == WInc(r.sequence)
    IN
    IF p.bbo # NULL
    THEN LET c == convert_and_publish(p.pool.pool_[p.bbo[1]], r.ring, st1, r.config)
         IN  [stats |-> IF r.config.enable_stats
                        THEN [c.stats EXCEPT !.packets_processed = WInc(@)]
                        ELSE c.stats,
              pool |-> p.pool, sequence |-> seq1, ring |-> c.ring,
              ev |-> [frame |-> 0, passed |-> TRUE, len |-> len, seq |-> r.sequence,
                      bbo |-> p.bbo, tried |-> c.tried, ret |-> c.ret]]
    ELSE [stats |-> IF r.config.enable_stats
                    THEN [st1 EXCEPT !.parse_errors = WInc(@)]
                    ELSE st1,
          pool |-> p.pool, sequence |-> seq1, ring |-> r.ring,
          ev |-> [frame |-> 0, passed |-> TRUE, len |-> len, seq |-> r.sequence,
                  bbo |-> NULL, tried |-> NULL, ret |-> NULL]]

\* a variant that counts a record as processed only when the ring took it
process_packet_counts_published(m, ts, r) ==
    IF BE16(m, ETHER_TYPE_OFFSET) # RTE_ETHER_TYPE_IPV4 THEN Filtered(r)
    ELSE IF ByteAt(m, ETH_SIZE + NEXT_PROTO_OFFSET) # IPPROTO_UDP THEN Filtered(r)
    ELSE
    LET ihl == (ByteAt(m, ETH_SIZE + VERSION_IHL_OFFSET) % 16) * 4
        udp == ETH_SIZE + ihl
    IN
    IF BE16(m, udp + DST_PORT_OFFSET) # r.config.udp_port THEN Filtered(r)
    ELSE
    LET payload == udp + UDP_SIZE
        len == payload_len(BE16(m, udp + DGRAM_LEN_OFFSET))
        st1 == IF r.config.enable_stats
               THEN [r.stats EXCEPT !.packets_received = WInc(@)]
               ELSE r.stats
        ts_ns == cycles_to_ns(r.tsc, ts)
        p == parse(m, payload, len, r.pool, ts_ns, r.sequence)
        seq1 == WInc(r.sequence)
    IN
    IF p.bbo # NULL
    THEN LET c == convert_and_publish(p.pool.pool_[p.bbo[1]], r.ring, st1, r.config)
         IN  [stats |-> IF r.config.enable_stats /\ c.tried[1].ok
                        THEN [c.stats EXCEPT !.packets_processed = WInc(@)]
                        ELSE c.stats,
              pool |-> p.pool, sequence |-> seq1, ring |-> c.ring,
              ev |-> [frame |-> 0, passed |-> TRUE, len |-> len, seq |-> r.sequence,
                      bbo |-> p.bbo, tried |-> c.tried, ret |-> c.ret]]
    ELSE [stats |-> IF r.config.enable_stats
                    THEN [st1 EXCEPT !.parse_errors = WInc(@)]
                    ELSE st1,
          pool |-> p.pool, sequence |-> seq1, ring |-> r.ring,
          ev |-> [frame |-> 0, passed |-> TRUE, len |-> len, seq |-> r.sequence,
                  bbo |-> NULL, tried |-> NULL, ret |-> NULL]]

\* a variant whose sequence counter advances only when the parse succeeded
process_packet_numbers_parsed(m, ts, r) ==
    IF BE16(m, ETHER_TYPE_OFFSET) # RTE_ETHER_TYPE_IPV4 THEN Filtered(r)
    ELSE IF ByteAt(m, ETH_SIZE + NEXT_PROTO_OFFSET) # IPPROTO_UDP THEN Filtered(r)
    ELSE
    LET ihl == (ByteAt(m, ETH_SIZE + VERSION_IHL_OFFSET) % 16) * 4
        udp == ETH_SIZE + ihl
    IN
    IF BE16(m, udp + DST_PORT_OFFSET) # r.config.udp_port THEN Filtered(r)
    ELSE
    LET payload == udp + UDP_SIZE
        len == payload_len(BE16(m, udp + DGRAM_LEN_OFFSET))
        st1 == IF r.config.enable_stats
               THEN [r.stats EXCEPT !.packets_received = WInc(@)]
               ELSE r.stats
        ts_ns == cycles_to_ns(r.tsc, ts)
        p == parse(m, payload, len, r.pool, ts_ns, r.sequence)
        seq1 == WInc(r.sequence)
    IN
    IF p.bbo # NULL
    THEN LET c == convert_and_publish(p.pool.pool_[p.bbo[1]], r.ring, st1, r.config)
         IN  [stats |-> IF r.config.enable_stats
                        THEN [c.stats EXCEPT !.packets_processed = WInc(@)]
                        ELSE c.stats,
              pool |-> p.pool, sequence |-> seq1, ring |-> c.ring,
              ev |-> [frame |-> 0, passed |-> TRUE, len |-> len, seq |-> r.sequence,
                      bbo |-> p.bbo, tried |-> c.tried, ret |-> c.ret]]
    ELSE [stats |-> IF r.config.enable_stats
                    THEN [st1 EXCEPT !.parse_errors = WInc(@)]
                    ELSE st1,
          pool |-> p.pool, sequence |-> r.sequence, ring |-> r.ring,
          ev |-> [frame |-> 0, passed |-> TRUE, len |-> len, seq |-> r.sequence,
                  bbo |-> NULL, tried |-> NULL, ret |-> NULL]]

process_packet(m, ts, r) ==
    IF BE16(m, ETHER_TYPE_OFFSET) # RTE_ETHER_TYPE_IPV4 THEN Filtered(r)
    ELSE IF ByteAt(m, ETH_SIZE + NEXT_PROTO_OFFSET) # IPPROTO_UDP THEN Filtered(r)
    ELSE
    LET ihl == (ByteAt(m, ETH_SIZE + VERSION_IHL_OFFSET) % 16) * 4
        udp == ETH_SIZE + ihl
    IN
    IF BE16(m, udp + DST_PORT_OFFSET) # r.config.udp_port THEN Filtered(r)
    ELSE
    LET payload == udp + UDP_SIZE
        len == payload_len(BE16(m, udp + DGRAM_LEN_OFFSET))
        st1 == IF r.config.enable_stats
               THEN [r.stats EXCEPT !.packets_received = WInc(@)]
               ELSE r.stats
        ts_ns == cycles_to_ns(r.tsc, ts)
        p == parse(m, payload, len, r.pool, ts_ns, r.sequence)
        seq1 == WInc(r.sequence)
    IN
    IF p.bbo # NULL
    THEN LET c == convert_and_publish(p.pool.pool_[p.bbo[1]], r.ring, st1, r.config)
         IN  [stats |-> IF r.config.enable_stats
                        THEN [c.stats EXCEPT !.packets_processed = WInc(@)]
                        ELSE c.stats,
              pool |-> p.pool, sequence |-> seq1, ring |-> c.ring,
              ev |-> [frame |-> 0, passed |-> TRUE, len |-> len, seq |-> r.sequence,
                      bbo |-> p.bbo, tried |-> c.tried, ret |-> c.ret]]
    ELSE [stats |-> IF r.config.enable_stats
                    THEN [st1 EXCEPT !.parse_errors = WInc(@)]
                    ELSE st1,
          pool |-> p.pool, sequence |-> seq1, ring |-> r.ring,
          ev |-> [frame |-> 0, passed |-> TRUE, len |-> len, seq |-> r.sequence,
                  bbo |-> NULL, tried |-> NULL, ret |-> NULL]]

(***************************************************************************)
(* DPDKReceiver::create_dummy_packet: the synthetic warm-up frame,         *)
(* Ethernet + IPv4 + UDP + a 44-byte BBO, built over zeroed bytes.         *)
(***************************************************************************)
WARMUP_SYMBOL == <<87, 65, 82, 77, 85, 80, 32, 32>>
DUMMY_PRICE == 1500000
DUMMY_SHARES == 100
DUMMY_SPREAD == 1000
DUMMY_VERSION_IHL == 69

\* a dummy packet whose UDP destination port is left at the memset's zero
create_dummy_packet_no_port(cfg) ==
    LET TOTAL_SIZE == ETH_SIZE + IP_SIZE + UDP_SIZE + DUMMY_BBO_SIZE
        bbo == ETH_SIZE + IP_SIZE + UDP_SIZE
        d0 == Zeros(TOTAL_SIZE)
        d1 == Put(d0, ETHER_TYPE_OFFSET, Bytes16(RTE_ETHER_TYPE_IPV4))
        d2 == Put(d1, ETH_SIZE + VERSION_IHL_OFFSET, <<DUMMY_VERSION_IHL>>)
        d3 == Put(d2, ETH_SIZE + 2, Bytes16(IP_SIZE + UDP_SIZE + DUMMY_BBO_SIZE))
        d4 == Put(d3, ETH_SIZE + NEXT_PROTO_OFFSET, <<IPPROTO_UDP>>)
        d5 == d4
        d6 == Put(d5, ETH_SIZE + IP_SIZE + DGRAM_LEN_OFFSET,
                  Bytes16(UDP_SIZE + DUMMY_BBO_SIZE))
        d7 == Put(d6, bbo, WARMUP_SYMBOL)
        d8 == Put(d7, bbo + 8, Bytes32(DUMMY_PRICE))
        d9 == Put(d8, bbo + 12, Bytes32(DUMMY_SHARES))
        d10 == Put(d9, bbo + 16, Bytes32(DUMMY_PRICE))
        d11 == Put(d10, bbo + 20, Bytes32(DUMMY_SHARES))
        d12 == Put(d11, bbo + 24, Bytes32(DUMMY_SPREAD))
    IN  [data |-> d12, stale |-> 0]

create_dummy_packet(cfg) ==
    LET TOTAL_SIZE == ETH_SIZE + IP_SIZE + UDP_SIZE + DUMMY_BBO_SIZE
        bbo == ETH_SIZE + IP_SIZE + UDP_SIZE
        d0 == Zeros(TOTAL_SIZE)
        d1 == Put(d0, ETHER_TYPE_OFFSET, Bytes16(RTE_ETHER_TYPE_IPV4))
        d2 == Put(d1, ETH_SIZE + VERSION_IHL_OFFSET, <<DUMMY_VERSION_IHL>>)
        d3 == Put(d2, ETH_SIZE + 2, Bytes16(IP_SIZE + UDP_SIZE + DUMMY_BBO_SIZE))
        d4 == Put(d3, ETH_SIZE + NEXT_PROTO_OFFSET, <<IPPROTO_UDP>>)
        d5 == Put(d4, ETH_SIZE + IP_SIZE + DST_PORT_OFFSET, Bytes16(cfg.udp_port))
        d6 == Put(d5, ETH_SIZE + IP_SIZE + DGRAM_LEN_OFFSET,
                  Bytes16(UDP_SIZE + DUMMY_BBO_SIZE))
        d7 == Put(d6, bbo, WARMUP_SYMBOL)
        d8 == Put(d7, bbo + 8, Bytes32(DUMMY_PRICE))
        d9 == Put(d8, bbo + 12, Bytes32(DUMMY_SHARES))
        d10 == Put(d9, bbo + 16, Bytes32(DUMMY_PRICE))
        d11 == Put(d10, bbo + 20, Bytes32(DUMMY_SHARES))
        d12 == Put(d11, bbo + 24, Bytes32(DUMMY_SPREAD))
    IN  [data |-> d12, stale |-> 0]

(***************************************************************************)
(* The traffic the NIC may deliver: frames as they appear on the wire.     *)
(***************************************************************************)
AAPL28 ==
    <<65, 65, 80, 76, 32, 32, 32, 32,   0, 22, 227, 96,   0, 0, 0, 100,
      0, 22, 229, 160,   0, 0, 0, 100,   0, 0, 39, 16>>
TS16 == <<0, 0, 0, 1,   0, 0, 0, 5,   0, 0, 0, 10,   0, 0, 0, 20>>

\* a frame on the wire: Ethernet header, IPv4 header of (version_ihl & 15) * 4
\* bytes, UDP header with the given dgram_len field, then the payload bytes;
\* the header fields it was built from are kept beside the bytes
Frame(ether_type, version_ihl, proto, dst_port, dgram_len, payload) ==
    [data |-> Zeros(ETHER_TYPE_OFFSET) \o Bytes16(ether_type)
                \o [i \in 1..((version_ihl % 16) * 4) |->
                       IF i = VERSION_IHL_OFFSET + 1 THEN version_ihl
                       ELSE IF i = NEXT_PROTO_OFFSET + 1 THEN proto ELSE 0]
                \o <<0, 0>> \o Bytes16(dst_port) \o Bytes16(dgram_len) \o <<0, 0>>
                \o payload,
     stale |-> 255,
     ether_type |-> ether_type, proto |-> proto, dst_port |-> dst_port,
     dgram_len |-> dgram_len, payload |-> payload]

Traffic ==
    << \* 1: the 28-byte BBO
       Frame(RTE_ETHER_TYPE_IPV4, 69, IPPROTO_UDP, DEFAULT_UDP_PORT, 36, AAPL28),
       \* 2: the 44-byte BBO with hardware timestamps
       Frame(RTE_ETHER_TYPE_IPV4, 69, IPPROTO_UDP, DEFAULT_UDP_PORT, 52, AAPL28 \o TS16),
       \* 3: a 27-byte payload
       Frame(RTE_ETHER_TYPE_IPV4, 69, IPPROTO_UDP, DEFAULT_UDP_PORT, 35,
             SubSeq(AAPL28, 1, 27)),
       \* 4: an empty payload
       Frame(RTE_ETHER_TYPE_IPV4, 69, IPPROTO_UDP, DEFAULT_UDP_PORT, 8, << >>),
       \* 5: an IPv6 frame (ethertype 0x86DD)
       Frame(34525, 69, IPPROTO_UDP, DEFAULT_UDP_PORT, 36, AAPL28),
       \* 6: IPv4 but TCP (protocol 6)
       Frame(RTE_ETHER_TYPE_IPV4, 69, 6, DEFAULT_UDP_PORT, 36, AAPL28),
       \* 7: UDP to port 9999
       Frame(RTE_ETHER_TYPE_IPV4, 69, IPPROTO_UDP, 9999, 36, AAPL28),
       \* 8: the 44-byte BBO under a dgram_len field smaller than the UDP header
       Frame(RTE_ETHER_TYPE_IPV4, 69, IPPROTO_UDP, DEFAULT_UDP_PORT, 7, AAPL28 \o TS16),
       \* 9: the 28-byte BBO with NUL, control and non-ASCII bytes in its symbol
       Frame(RTE_ETHER_TYPE_IPV4, 69, IPPROTO_UDP, DEFAULT_UDP_PORT, 36,
             <<65, 0, 7, 255, 127, 31, 32, 90>> \o SubSeq(AAPL28, 9, 28))
    >>

Frames == 1..Len(Traffic)
DUMMY == 0

\* rte_pktmbuf_mtod: the bytes of frame f in a packet buffer
Mbuf(f) == Traffic[f]

(***************************************************************************)
(* State.                                                                  *)
(***************************************************************************)
VARIABLES
    \* DPDKReceiver members
    config_, stats_, tsc_, mbuf_pool_, dpdk_initialized_, bbo_pool_,
    ring_buffer_, running_, sequence_,
    \* main(): position, globals and locals
    pc, g_receiver, handlers, exit_code, warmup_count, skip_warmup,
    \* locals of warm_dpdk_path and poll_loop
    warm_count, warm_i, pkts, burst_i,
    \* environment: the shared-memory segment and its ring, the consumer
    \* process, the EAL, the NIC port, the cycle counter, frames delivered so far
    shm_exists, ring, consumer, eal_up, port_started, link_up, tsc_now, delivered,
    \* history: stop() requested, process_packet calls, frames that passed
    \* the filters, what the last call did, records handed to try_publish,
    \* what main() has started
    stop_seen, calls, passed, last, offered, ring_at_map, init_failed,
    warm_entered, poll_entered, poll_returned,
    \* history: slot indexes acquire has returned, the system calls of the
    \* init_shared_memory call that has just returned (main drops them when
    \* it moves on), the last use of a cold-path helper
    acquired, shm_ops, cold,
    \* the statistics thread of main(): its position and, as history, the
    \* members it has loaded; history: the buffers allocated, handed to
    \* process_packet and freed, in order
    stats_thread, mbuf_log

members == <<config_, stats_, tsc_, mbuf_pool_, dpdk_initialized_, bbo_pool_,
             ring_buffer_, running_, sequence_>>
mainv == <<pc, g_receiver, handlers, exit_code, warmup_count, skip_warmup>>
locals == <<warm_count, warm_i, pkts, burst_i>>
env == <<shm_exists, ring, consumer, eal_up, port_started, link_up, tsc_now,
         delivered>>
hist == <<stop_seen, calls, passed, last, offered, ring_at_map, init_failed,
          warm_entered, poll_entered, poll_returned, acquired, shm_ops, cold,
          stats_thread, mbuf_log>>
vars == <<members, mainv, locals, env, hist>>

\* what process_packet reads and writes, and the history it leaves
hot == <<stats_, bbo_pool_, sequence_, ring, tsc_now, calls, passed, last, offered,
         acquired>>

Stats0 ==
    [packets_received |-> U64(0), packets_processed |-> U64(0),
     packets_dropped |-> U64(0), parse_errors |-> U64(0),
     ring_buffer_full |-> U64(0)]

NoEvent ==
    [frame |-> 0, passed |-> FALSE, len |-> NULL, seq |-> NULL, bbo |-> NULL,
     tried |-> NULL, ret |-> NULL]

\* no statistics thread has been started
NoThread == [pc |-> "none", loads |-> {}]

\* no cold-path helper has been used
NoCold == [op |-> "none"]

\* a record left in an existing segment by an earlier producer
OldRecord == to_gateway([clear EXCEPT !.valid = 1])

\* the receiver as its constructor leaves it, the environment as found
Constructed(cfg, huge) ==
    /\ config_ = cfg
    /\ stats_ = Stats0
    /\ tsc_ = TSCCalibrator
    /\ mbuf_pool_ = NULL
    /\ dpdk_initialized_ = FALSE
    /\ bbo_pool_ = BBOPool(huge)
    /\ ring_buffer_ = NULL
    /\ running_ = FALSE
    /\ sequence_ = U32(0)
    /\ g_receiver = NULL /\ handlers = FALSE /\ exit_code = NULL
    /\ warm_count = 0 /\ warm_i = 0 /\ pkts = << >> /\ burst_i = 0
    /\ shm_exists \in BOOLEAN
    /\ ring \in IF shm_exists THEN {<< >>, <<OldRecord>>} ELSE {<< >>}
    /\ consumer \in BOOLEAN
    /\ eal_up = FALSE
    /\ port_started = FALSE
    /\ link_up = FALSE
    /\ tsc_now = TscStep
    /\ delivered = 0
    /\ stop_seen = FALSE /\ calls = U64(0) /\ passed = U64(0)
    /\ last = NoEvent /\ offered = << >> /\ ring_at_map = NULL
    /\ acquired = << >> /\ shm_ops = << >> /\ cold = NoCold
    /\ stats_thread = NoThread /\ mbuf_log = << >>
    /\ init_failed = FALSE /\ warm_entered = FALSE
    /\ poll_entered = FALSE /\ poll_returned = FALSE

\* main() up to "DPDKReceiver receiver(config)": the default Config, the
\* warm-up options from the command line
Init ==
    /\ Constructed([udp_port |-> DEFAULT_UDP_PORT, enable_stats |-> TRUE], TRUE)
    /\ pc = "constructed"
    /\ warmup_count \in 0..MaxWarm
    /\ skip_warmup \in BOOLEAN
    /\ skip_warmup => warmup_count = 0

(***************************************************************************)
(* Steps shared by warm-up and the poll loop.                              *)
(***************************************************************************)
\* the header fields of frame f as sent (DUMMY: as create_dummy_packet sets them)
Info(f) ==
    IF f = DUMMY
    THEN [ether_type |-> RTE_ETHER_TYPE_IPV4, proto |-> IPPROTO_UDP,
          dst_port |-> config_.udp_port, dgram_len |-> UDP_SIZE + DUMMY_BBO_SIZE]
    ELSE [ether_type |-> Traffic[f].ether_type, proto |-> Traffic[f].proto,
          dst_port |-> Traffic[f].dst_port, dgram_len |-> Traffic[f].dgram_len]

\* the frame is IPv4, UDP, and addressed to the configured port
PassesFilters(f) ==
    /\ Info(f).ether_type = RTE_ETHER_TYPE_IPV4
    /\ Info(f).proto = IPPROTO_UDP
    /\ Info(f).dst_port = config_.udp_port

\* one call of process_packet on buffer m: reads the cycle counter, runs the
\* function on the members, and records what it did
Handle(m, f) ==
    LET r == [config |-> config_, tsc |-> tsc_, stats |-> stats_,
              pool |-> bbo_pool_, sequence |-> sequence_, ring |-> ring]
        q == process_packet(m, tsc_now, r)
    IN  /\ stats_' = q.stats
        /\ bbo_pool_' = q.pool
        /\ sequence_' = q.sequence
        /\ ring' = q.ring
        /\ tsc_now' = tsc_now + TscStep
        /\ calls' = WInc(calls)
        /\ passed' = IF PassesFilters(f) THEN WInc(passed) ELSE passed
        /\ last' = [q.ev EXCEPT !.frame = f]
        /\ offered' = offered \o q.ev.tried
        /\ acquired' = acquired \o q.ev.bbo

\* a stop() that flips the flag instead of clearing it
stop_toggles == running_' = ~running_

\* DPDKReceiver::stop()
stop == running_' = FALSE

(***************************************************************************)
(* DPDKReceiver::initialize, one step per init function.  A failing step   *)
(* makes initialize return false (control goes to fail_to); when all four  *)
(* succeed dpdk_initialized_ is set and control goes to ok_to.             *)
(***************************************************************************)
\* rte_eal_init succeeds at most once per process (a second call fails)
init_dpdk_eal(fail_to) ==
    /\ pc = "init_dpdk_eal"
    /\ \E eal_ok \in (IF eal_up THEN {FALSE} ELSE BOOLEAN), port_valid \in BOOLEAN :
          /\ eal_up' = (eal_up \/ eal_ok)
          /\ IF eal_ok /\ port_valid
             THEN pc' = "init_mempool" /\ UNCHANGED init_failed
             ELSE pc' = fail_to /\ init_failed' = TRUE
    /\ UNCHANGED <<members, g_receiver, handlers, exit_code, warmup_count,
                   skip_warmup, locals, shm_exists, ring, consumer, port_started, link_up,
                   tsc_now, delivered, stop_seen, calls, passed, last,
                   offered, acquired, ring_at_map, shm_ops, stats_thread, mbuf_log, cold, warm_entered, poll_entered, poll_returned>>

\* an initialize() that does not look at what init_mempool() returned
init_mempool_unchecked(fail_to) ==
    /\ pc = "init_mempool"
    /\ \E created \in BOOLEAN :
          /\ mbuf_pool_' = IF created THEN <<"MBUF_POOL">> ELSE NULL
          /\ pc' = "init_port"
          /\ UNCHANGED init_failed
    /\ UNCHANGED <<config_, stats_, tsc_, dpdk_initialized_, bbo_pool_,
                   ring_buffer_, running_, sequence_, g_receiver, handlers,
                   exit_code, warmup_count, skip_warmup, locals, env, stop_seen,
                   calls, passed, last, offered, acquired, ring_at_map, shm_ops, stats_thread, mbuf_log, cold, warm_entered,
                   poll_entered, poll_returned>>

init_mempool(fail_to) ==
    /\ pc = "init_mempool"
    /\ \E created \in BOOLEAN :
          /\ mbuf_pool_' = IF created THEN <<"MBUF_POOL">> ELSE NULL
          /\ IF created
             THEN pc' = "init_port" /\ UNCHANGED init_failed
             ELSE pc' = fail_to /\ init_failed' = TRUE
    /\ UNCHANGED <<config_, stats_, tsc_, dpdk_initialized_, bbo_pool_,
                   ring_buffer_, running_, sequence_, g_receiver, handlers,
                   exit_code, warmup_count, skip_warmup, locals, env, stop_seen,
                   calls, passed, last, offered, acquired, ring_at_map, shm_ops, stats_thread, mbuf_log, cold, warm_entered,
                   poll_entered, poll_returned>>

\* an init_port for which a failed rte_eth_promiscuous_enable is an error
init_port_promisc_fatal(fail_to, promisc_ok, link) ==
    /\ pc = "init_port"
    /\ \E info_ok, configured, queue_ok, started \in BOOLEAN :
          /\ port_started' = (info_ok /\ configured /\ queue_ok /\ started)
          /\ link_up' = (port_started' /\ link)
          /\ IF info_ok /\ configured /\ queue_ok /\ started /\ promisc_ok
             THEN pc' = "init_shared_memory" /\ UNCHANGED init_failed
             ELSE pc' = fail_to /\ init_failed' = TRUE
    /\ UNCHANGED <<members, g_receiver, handlers, exit_code, warmup_count,
                   skip_warmup, locals, shm_exists, ring, consumer, eal_up,
                   tsc_now, delivered, stop_seen, calls, passed, last, offered, acquired,
                   ring_at_map, shm_ops, stats_thread, mbuf_log, cold, warm_entered,
                   poll_entered, poll_returned>>

\* init_port when rte_eth_promiscuous_enable ends as promisc_ok says and
\* rte_eth_link_get_nowait reports the link as link says: dev_info_get,
\* dev_configure, rx_queue_setup and dev_start must each succeed; a failed
\* promiscuous enable prints a warning, the link state is printed
init_port_with(fail_to, promisc_ok, link) ==
    /\ pc = "init_port"
    /\ \E info_ok, configured, queue_ok, started \in BOOLEAN :
          /\ port_started' = (info_ok /\ configured /\ queue_ok /\ started)
          /\ link_up' = (port_started' /\ link)
          /\ IF info_ok /\ configured /\ queue_ok /\ started
             THEN pc' = "init_shared_memory" /\ UNCHANGED init_failed
             ELSE pc' = fail_to /\ init_failed' = TRUE
    /\ UNCHANGED <<members, g_receiver, handlers, exit_code, warmup_count,
                   skip_warmup, locals, shm_exists, ring, consumer, eal_up,
                   tsc_now, delivered, stop_seen, calls, passed, last, offered, acquired,
                   ring_at_map, shm_ops, stats_thread, mbuf_log, cold, warm_entered,
                   poll_entered, poll_returned>>

\* DPDKReceiver::init_port(): the driver and the cable decide the outcomes
init_port(fail_to) ==
    \E promisc_ok, link \in BOOLEAN : init_port_with(fail_to, promisc_ok, link)

\* the calls init_shared_memory makes on the existing segment, in order,
\* with how each ended: shm_open(O_RDWR), then mmap and close(fd)
shm_attach_calls(exists, map_existing) ==
    IF exists
    THEN <<"open", IF map_existing THEN "mmap" ELSE "mmap_failed", "close">>
    ELSE <<"open_failed">>

\* a creation that returns on the ftruncate failure with the descriptor open
shm_create_calls_leaks_fd(created, truncated, mapped) ==
    <<"unlink">> \o
    (IF ~created THEN <<"create_failed">>
     ELSE IF ~truncated THEN <<"create", "ftruncate_failed", "unlink">>
     ELSE IF ~mapped
          THEN <<"create", "ftruncate", "mmap_failed", "close", "unlink">>
     ELSE <<"create", "ftruncate", "mmap", "close", "new">>)

\* the calls it makes when it does not attach: shm_unlink, shm_open(O_CREAT |
\* O_RDWR | O_EXCL), ftruncate, mmap, close(fd), placement new; a failed
\* ftruncate is followed by close(fd) and shm_unlink, a failed mmap (the
\* descriptor is closed right after the mmap) by shm_unlink
shm_create_calls(created, truncated, mapped) ==
    <<"unlink">> \o
    (IF ~created THEN <<"create_failed">>
     ELSE IF ~truncated THEN <<"create", "ftruncate_failed", "close", "unlink">>
     ELSE IF ~mapped
          THEN <<"create", "ftruncate", "mmap_failed", "close", "unlink">>
     ELSE <<"create", "ftruncate", "mmap", "close", "new">>)

\* an init_shared_memory that placement-initializes the ring it attached to
init_shared_memory_reinitializes(ok_to, fail_to) ==
    /\ pc = "init_shared_memory"
    /\ \E map_existing, created, truncated, mapped \in BOOLEAN :
          LET opening == shm_attach_calls(shm_exists, map_existing)
              creating == shm_create_calls(created, truncated, mapped)
          IN
          IF shm_exists /\ map_existing
          THEN /\ ring_buffer_' = <<"ring">>
               /\ ring' = << >>
               /\ ring_at_map' = << << >> >>
               /\ shm_ops' = opening \o <<"new">>
               /\ dpdk_initialized_' = TRUE
               /\ pc' = ok_to
               /\ UNCHANGED <<shm_exists, init_failed>>
          ELSE IF created /\ truncated /\ mapped
          THEN /\ ring_buffer_' = <<"ring">>
               /\ ring' = << >>
               /\ ring_at_map' = << << >> >>
               /\ shm_ops' = opening \o creating
               /\ shm_exists' = TRUE
               /\ dpdk_initialized_' = TRUE
               /\ pc' = ok_to
               /\ UNCHANGED init_failed
          ELSE /\ shm_exists' = FALSE
               /\ shm_ops' = opening \o creating
               /\ init_failed' = TRUE
               /\ pc' = fail_to
               /\ UNCHANGED <<ring_buffer_, ring, ring_at_map, dpdk_initialized_>>
    /\ UNCHANGED <<config_, stats_, tsc_, mbuf_pool_, bbo_pool_, running_,
                   sequence_, g_receiver, handlers, exit_code, warmup_count,
                   skip_warmup, locals, consumer, eal_up, port_started, link_up, tsc_now,
                   delivered, stop_seen, calls, passed, last, offered, acquired,
                   cold, warm_entered, poll_entered, poll_returned, stats_thread,
                   mbuf_log>>

\* attach to the existing segment if it opens and maps; otherwise unlink,
\* create exclusively, truncate, map and placement-new an empty ring.
\* shm_ops lists the calls made, in order, with how each ended
init_shared_memory(ok_to, fail_to) ==
    /\ pc = "init_shared_memory"
    /\ \E map_existing, created, truncated, mapped \in BOOLEAN :
          LET opening == shm_attach_calls(shm_exists, map_existing)
              creating == shm_create_calls(created, truncated, mapped)
          IN
          IF shm_exists /\ map_existing
          THEN /\ ring_buffer_' = <<"ring">>
               /\ ring_at_map' = <<ring>>
               /\ shm_ops' = opening
               /\ dpdk_initialized_' = TRUE
               /\ pc' = ok_to
               /\ UNCHANGED <<shm_exists, ring, init_failed>>
          ELSE IF created /\ truncated /\ mapped
          THEN /\ ring_buffer_' = <<"ring">>
               /\ ring' = << >>
               /\ ring_at_map' = << << >> >>
               /\ shm_ops' = opening \o creating
               /\ shm_exists' = TRUE
               /\ dpdk_initialized_' = TRUE
               /\ pc' = ok_to
               /\ UNCHANGED init_failed
          ELSE /\ shm_exists' = FALSE
               /\ shm_ops' = opening \o creating
               /\ init_failed' = TRUE
               /\ pc' = fail_to
               /\ UNCHANGED <<ring_buffer_, ring, ring_at_map, dpdk_initialized_>>
    /\ UNCHANGED <<config_, stats_, tsc_, mbuf_pool_, bbo_pool_, running_,
                   sequence_, g_receiver, handlers, exit_code, warmup_count,
                   skip_warmup, locals, consumer, eal_up, port_started, link_up, tsc_now,
                   delivered, stop_seen, calls, passed, last, offered, acquired,
                   cold, warm_entered, poll_entered, poll_returned, stats_thread,
                   mbuf_log>>

(***************************************************************************)
(* DPDKReceiver::warm_up(count): warm_cache() only reads; warm_dpdk_path   *)
(* runs count iterations, each on a fresh dummy packet when the allocation *)
(* succeeds.                                                               *)
(***************************************************************************)
\* the handle of the buffer rte_pktmbuf_alloc returns during the warm-up: the
\* pool hands out the buffer that was freed last
DummyMbuf == 0 - 1

warm_dpdk_path_step ==
    /\ pc = "warm_up"
    /\ warm_i < warm_count
    /\ warm_i' = warm_i + 1
    /\ \E allocated \in BOOLEAN :
          IF allocated
          THEN /\ Handle(create_dummy_packet(config_), DUMMY)
               /\ mbuf_log' = mbuf_log \o <<<<"alloc", DummyMbuf>>, <<"process", DummyMbuf>>,
                                             <<"free", DummyMbuf>>>>
          ELSE UNCHANGED <<hot, mbuf_log>>
    /\ UNCHANGED <<config_, tsc_, mbuf_pool_, dpdk_initialized_, ring_buffer_,
                   running_, mainv, warm_count, pkts, burst_i, shm_exists,
                   consumer, eal_up, port_started, link_up, delivered, stop_seen,
                   ring_at_map, shm_ops, stats_thread, cold,
                   init_failed, warm_entered, poll_entered, poll_returned>>

warm_up_return(to) ==
    /\ pc = "warm_up"
    /\ warm_i >= warm_count
    /\ pc' = to
    /\ UNCHANGED <<members, g_receiver, handlers, exit_code, warmup_count,
                   skip_warmup, locals, env, hist>>

(***************************************************************************)
(* DPDKReceiver::poll_loop.                                                *)
(***************************************************************************)
poll_loop_enter ==
    /\ pc = "poll_loop"
    /\ running_' = TRUE
    /\ poll_entered' = TRUE
    /\ poll_returned' = FALSE
    /\ pc' = "poll_check"
    /\ UNCHANGED <<config_, stats_, tsc_, mbuf_pool_, dpdk_initialized_,
                   bbo_pool_, ring_buffer_, sequence_, g_receiver, handlers,
                   exit_code, warmup_count, skip_warmup, locals, env, stop_seen,
                   calls, passed, last, offered, acquired, ring_at_map, shm_ops, stats_thread, mbuf_log, cold, init_failed,
                   warm_entered>>

\* while (running_.load())
poll_loop_check(to) ==
    /\ pc = "poll_check"
    /\ IF running_
       THEN pc' = "rx_burst" /\ UNCHANGED poll_returned
       ELSE pc' = to /\ poll_returned' = TRUE
    /\ UNCHANGED <<members, g_receiver, handlers, exit_code, warmup_count,
                   skip_warmup, locals, env, stop_seen, calls, passed, last,
                   offered, acquired, ring_at_map, shm_ops, stats_thread, mbuf_log, cold, init_failed, warm_entered, poll_entered>>

Min(a, b) == IF a < b THEN a ELSE b

\* nb_rx = rte_eth_rx_burst(port, queue, pkts, BURST_SIZE): the handles of the
\* next nb_rx buffers the NIC filled, numbered in arrival order; a port whose
\* link is down receives nothing
rx_burst ==
    /\ pc = "rx_burst"
    /\ \E nb_rx \in 0..(IF link_up
                        THEN Min(Min(MaxBurst, BURST_SIZE), MaxFrames - delivered)
                        ELSE 0) :
          /\ pkts' = [i \in 1..nb_rx |-> delivered + i]
          /\ burst_i' = 0
          /\ delivered' = delivered + nb_rx
          /\ pc' = IF nb_rx > 0 THEN "process_burst" ELSE "poll_check"
    /\ UNCHANGED <<members, g_receiver, handlers, exit_code, warmup_count,
                   skip_warmup, warm_count, warm_i, shm_exists, ring, consumer,
                   eal_up, port_started, link_up, tsc_now, hist>>

\* a process_burst that frees only the buffers whose frame passed the filters
process_burst_step_keeps_buffer ==
    /\ pc = "process_burst"
    /\ burst_i < Len(pkts)
    /\ \E f \in Frames : Handle(Mbuf(f), f)
    /\ mbuf_log' = mbuf_log \o
                    (IF PassesFilters(last'.frame)
                     THEN <<<<"process", pkts[burst_i + 1]>>, <<"free", pkts[burst_i + 1]>>>>
                     ELSE <<<<"process", pkts[burst_i + 1]>>>>)
    /\ pkts' = [pkts EXCEPT ![burst_i + 1] = 0]
    /\ burst_i' = burst_i + 1
    /\ pc' = IF burst_i + 1 < Len(pkts) THEN "process_burst" ELSE "poll_check"
    /\ UNCHANGED <<config_, tsc_, mbuf_pool_, dpdk_initialized_, ring_buffer_,
                   running_, g_receiver, handlers, exit_code, warmup_count,
                   skip_warmup, warm_count, warm_i, shm_exists, consumer,
                   eal_up, port_started, link_up, delivered, stop_seen, ring_at_map,
                   shm_ops, stats_thread, cold, init_failed,
                   warm_entered, poll_entered, poll_returned>>

\* a process_burst that walks the burst from its last buffer to its first
process_burst_step_descending ==
    /\ pc = "process_burst"
    /\ burst_i < Len(pkts)
    /\ \E f \in Frames : Handle(Mbuf(f), f)
    /\ mbuf_log' = mbuf_log \o <<<<"process", pkts[Len(pkts) - burst_i]>>,
                                  <<"free", pkts[Len(pkts) - burst_i]>>>>
    /\ pkts' = [pkts EXCEPT ![Len(pkts) - burst_i] = 0]
    /\ burst_i' = burst_i + 1
    /\ pc' = IF burst_i + 1 < Len(pkts) THEN "process_burst" ELSE "poll_check"
    /\ UNCHANGED <<config_, tsc_, mbuf_pool_, dpdk_initialized_, ring_buffer_,
                   running_, g_receiver, handlers, exit_code, warmup_count,
                   skip_warmup, warm_count, warm_i, shm_exists, consumer,
                   eal_up, port_started, link_up, delivered, stop_seen, ring_at_map,
                   shm_ops, stats_thread, cold, init_failed,
                   warm_entered, poll_entered, poll_returned>>

\* one iteration of process_burst: process_packet(pkts[i]), then
\* rte_pktmbuf_free(pkts[i]) (a freed handle is 0), ++i.  The bytes the NIC
\* wrote behind the handle are one of the frames of Traffic.
process_burst_step ==
    /\ pc = "process_burst"
    /\ burst_i < Len(pkts)
    /\ \E f \in Frames : Handle(Mbuf(f), f)
    /\ mbuf_log' = mbuf_log \o <<<<"process", pkts[burst_i + 1]>>,
                                  <<"free", pkts[burst_i + 1]>>>>
    /\ pkts' = [pkts EXCEPT ![burst_i + 1] = 0]
    /\ burst_i' = burst_i + 1
    /\ pc' = IF burst_i + 1 < Len(pkts) THEN "process_burst" ELSE "poll_check"
    /\ UNCHANGED <<config_, tsc_, mbuf_pool_, dpdk_initialized_, ring_buffer_,
                   running_, g_receiver, handlers, exit_code, warmup_count,
                   skip_warmup, warm_count, warm_i, shm_exists, consumer,
                   eal_up, port_started, link_up, delivered, stop_seen, ring_at_map,
                   shm_ops, stats_thread, cold, init_failed,
                   warm_entered, poll_entered, poll_returned>>

(***************************************************************************)
(* The other parties: the signal handler and the consumer of the ring.     *)
(***************************************************************************)
\* SIGINT / SIGTERM while the process runs: if (g_receiver) g_receiver->stop()
signal_handler ==
    /\ handlers
    /\ pc # "exited"
    /\ stop_seen' = (stop_seen \/ g_receiver # NULL)
    /\ IF g_receiver # NULL THEN stop ELSE UNCHANGED running_
    /\ UNCHANGED <<config_, stats_, tsc_, mbuf_pool_, dpdk_initialized_,
                   bbo_pool_, ring_buffer_, sequence_, mainv, locals, env,
                   calls, passed, last, offered, acquired, ring_at_map, shm_ops, stats_thread, mbuf_log, cold, init_failed,
                   warm_entered, poll_entered, poll_returned>>

\* the downstream process takes the oldest record out of the ring
consume ==
    /\ consumer
    /\ shm_exists
    /\ ring # << >>
    /\ ring' = Tail(ring)
    /\ UNCHANGED <<members, mainv, locals, shm_exists, consumer, eal_up, port_started, link_up,
                   tsc_now, delivered, hist>>

(***************************************************************************)
(* main().                                                                 *)
(***************************************************************************)
\* g_receiver = &receiver; std::signal(SIGINT / SIGTERM, signal_handler)
main_install ==
    /\ pc = "constructed"
    /\ g_receiver' = <<"receiver">>
    /\ handlers' = TRUE
    /\ pc' = "init_dpdk_eal"
    /\ UNCHANGED <<members, exit_code, warmup_count, skip_warmup, locals, env, hist>>

\* initialize returned true: warm_up(warmup_count) unless skipped
main_warm_up ==
    /\ pc = "initialized"
    /\ shm_ops' = << >>
    /\ IF skip_warmup
       THEN pc' = "poll_loop" /\ UNCHANGED <<warm_count, warm_i, warm_entered>>
       ELSE /\ pc' = "warm_up"
            /\ warm_count' = warmup_count
            /\ warm_i' = 0
            /\ warm_entered' = TRUE
    /\ UNCHANGED <<members, g_receiver, handlers, exit_code, warmup_count,
                   skip_warmup, pkts, burst_i, env, stop_seen, calls, passed,
                   last, offered, acquired, ring_at_map, cold, init_failed,
                   poll_entered, poll_returned, stats_thread, mbuf_log>>

\* ~DPDKReceiver(): stop(), disconnect the ring, stop and close the port
Destroy ==
    /\ stop
    /\ ring_buffer_' = NULL
    /\ port_started' = IF dpdk_initialized_ THEN FALSE ELSE port_started

\* poll_loop returned: final stats, g_receiver = nullptr, return 0
main_return ==
    /\ pc = "poll_returned"
    /\ g_receiver' = NULL
    /\ Destroy
    /\ exit_code' = <<0>>
    /\ pc' = "exited"
    /\ UNCHANGED <<config_, stats_, tsc_, mbuf_pool_, dpdk_initialized_,
                   bbo_pool_, sequence_, handlers, warmup_count, skip_warmup,
                   locals, shm_exists, ring, consumer, eal_up, link_up, tsc_now,
                   delivered, hist>>

\* a main that goes on to the warm-up although initialize() returned false
main_ignores_failure ==
    /\ pc = "init_failed"
    /\ pc' = "initialized"
    /\ UNCHANGED <<members, g_receiver, handlers, exit_code, warmup_count,
                   skip_warmup, locals, env, hist>>

\* initialize returned false: return 1 (g_receiver is left as it is)
main_init_failed ==
    /\ pc = "init_failed"
    /\ Destroy
    /\ exit_code' = <<1>>
    /\ pc' = "exited"
    /\ UNCHANGED <<config_, stats_, tsc_, mbuf_pool_, dpdk_initialized_,
                   bbo_pool_, sequence_, g_receiver, handlers, warmup_count,
                   skip_warmup, locals, shm_exists, ring, consumer, eal_up,
                   link_up, tsc_now, delivered, hist>>

Next ==
    \/ main_install
    \/ init_dpdk_eal("init_failed")
    \/ init_mempool("init_failed")
    \/ init_port("init_failed")
    \/ init_shared_memory("initialized", "init_failed")
    \/ main_warm_up
    \/ warm_dpdk_path_step
    \/ warm_up_return("poll_loop")
    \/ poll_loop_enter
    \/ poll_loop_check("poll_returned")
    \/ rx_burst
    \/ process_burst_step
    \/ main_return
    \/ main_init_failed
    \/ signal_handler
    \/ consume

Spec == Init /\ [][Next]_vars

\* the members DPDKReceiver::print_stats() loads: four counters (relaxed),
\* tsc_.get_ghz(), bbo_pool_.current_head() (relaxed),
\* bbo_pool_.is_using_hugepages()
print_stats_loads ==
    {"stats_.packets_received", "stats_.packets_processed", "stats_.parse_errors",
     "stats_.ring_buffer_full", "tsc_.cycles_per_ns_", "bbo_pool_.head_",
     "bbo_pool_.using_hugepages_"}

(***************************************************************************)
(* main() with --benchmark: before it calls poll_loop() it starts a thread *)
(* that runs  while (is_running()) { sleep 5 s; if (is_running())          *)
(* print_stats(); }  and it joins the thread after poll_loop() returned.   *)
(***************************************************************************)
\* std::thread stats_thread(...)
main_start_stats_thread ==
    /\ pc = "poll_loop"
    /\ stats_thread.pc = "none"
    /\ stats_thread' = [stats_thread EXCEPT !.pc = "while"]
    /\ UNCHANGED <<members, mainv, locals, env, stop_seen, calls, passed, last,
                   offered, ring_at_map, init_failed, warm_entered, poll_entered,
                   poll_returned, acquired, shm_ops, cold, mbuf_log>>

\* while (receiver.is_running()), then sleep_for(5 s)
stats_thread_while ==
    /\ stats_thread.pc = "while"
    /\ stats_thread' = [pc |-> IF running_ THEN "sleep" ELSE "done",
                        loads |-> stats_thread.loads \cup {"running_"}]
    /\ UNCHANGED <<members, mainv, locals, env, stop_seen, calls, passed, last,
                   offered, ring_at_map, init_failed, warm_entered, poll_entered,
                   poll_returned, acquired, shm_ops, cold, mbuf_log>>

\* the sleep is over: if (receiver.is_running()) receiver.print_stats()
stats_thread_print ==
    /\ stats_thread.pc = "sleep"
    /\ stats_thread' = [pc |-> "while",
                        loads |-> stats_thread.loads \cup {"running_"} \cup
                                  (IF running_ THEN print_stats_loads ELSE {})]
    /\ UNCHANGED <<members, mainv, locals, env, stop_seen, calls, passed, last,
                   offered, ring_at_map, init_failed, warm_entered, poll_entered,
                   poll_returned, acquired, shm_ops, cold, mbuf_log>>

BenchNext ==
    \/ main_install
    \/ init_dpdk_eal("init_failed")
    \/ init_mempool("init_failed")
    \/ init_port("init_failed")
    \/ init_shared_memory("initialized", "init_failed")
    \/ main_warm_up
    \/ warm_dpdk_path_step
    \/ warm_up_return("poll_loop")
    \/ main_start_stats_thread
    \/ (stats_thread.pc # "none" /\ poll_loop_enter)
    \/ poll_loop_check("poll_returned")
    \/ rx_burst
    \/ process_burst_step
    \/ stats_thread_while
    \/ stats_thread_print
    \/ (stats_thread.pc = "done" /\ main_return)
    \/ main_init_failed
    \/ signal_handler
    \/ consume

BenchSpec == Init /\ [][BenchNext]_vars

(***************************************************************************)
(* The receiver driven through its public interface in any order: a client *)
(* that constructs a DPDKReceiver with some Config and calls initialize(), *)
(* warm_up(n) and poll_loop() one after another, while another thread may  *)
(* call stop() at any time.  warm_up and poll_loop are called only after   *)
(* initialize() returned true.  No segment exists beforehand and no        *)
(* consumer is attached.                                                   *)
(***************************************************************************)
ApiInit ==
    /\ \E stats_on \in BOOLEAN :
          Constructed([udp_port |-> DEFAULT_UDP_PORT, enable_stats |-> stats_on], FALSE)
    /\ ~shm_exists /\ ~consumer
    /\ pc = "idle"
    /\ warmup_count = 0
    /\ skip_warmup = FALSE

api_initialize ==
    /\ pc = "idle"
    /\ pc' = "init_dpdk_eal"
    /\ UNCHANGED <<members, g_receiver, handlers, exit_code, warmup_count,
                   skip_warmup, locals, env, hist>>

api_warm_up ==
    /\ pc = "idle"
    /\ dpdk_initialized_ /\ ~warm_entered
    /\ \E n \in 0..MaxWarm : warm_count' = n
    /\ warm_i' = 0
    /\ warm_entered' = TRUE
    /\ pc' = "warm_up"
    /\ UNCHANGED <<members, g_receiver, handlers, exit_code, warmup_count,
                   skip_warmup, pkts, burst_i, env, stop_seen, calls, passed,
                   last, offered, acquired, ring_at_map, shm_ops, stats_thread, mbuf_log, cold, init_failed, poll_entered,
                   poll_returned>>

api_poll_loop ==
    /\ pc = "idle"
    /\ dpdk_initialized_
    /\ pc' = "poll_loop"
    /\ UNCHANGED <<members, g_receiver, handlers, exit_code, warmup_count,
                   skip_warmup, locals, env, hist>>

api_stop ==
    /\ stop
    /\ stop_seen' = TRUE
    /\ UNCHANGED <<config_, stats_, tsc_, mbuf_pool_, dpdk_initialized_,
                   bbo_pool_, ring_buffer_, sequence_, mainv, locals, env,
                   calls, passed, last, offered, acquired, ring_at_map, shm_ops, stats_thread, mbuf_log, cold, init_failed,
                   warm_entered, poll_entered, poll_returned>>

\* the client calls print_stats(): a const member function that loads
\* print_stats_loads, prints them and stores nothing
api_print_stats ==
    /\ pc = "idle"
    /\ UNCHANGED vars

\* a reset_stats that stores 0 into packets_received only
api_reset_stats_partial ==
    /\ pc = "idle"
    /\ stats_' = [stats_ EXCEPT !.packets_received = U64(0)]
    /\ UNCHANGED <<config_, tsc_, mbuf_pool_, dpdk_initialized_, bbo_pool_,
                   ring_buffer_, running_, sequence_, mainv, locals, env, hist>>

\* a reset_stats that also runs tsc_.calibrate() again
api_reset_stats_recalibrates ==
    /\ pc = "idle"
    /\ stats_' = Stats0
    /\ tsc_' = calibrate(tsc_now, tsc_now + CalCycles + 1, tsc_now + CalCycles + 1)
    /\ UNCHANGED <<config_, mbuf_pool_, dpdk_initialized_, bbo_pool_,
                   ring_buffer_, running_, sequence_, mainv, locals, env, hist>>

\* the client calls reset_stats(): store 0 (relaxed) into all five counters
api_reset_stats ==
    /\ pc = "idle"
    /\ stats_' = Stats0
    /\ UNCHANGED <<config_, tsc_, mbuf_pool_, dpdk_initialized_, bbo_pool_,
                   ring_buffer_, running_, sequence_, mainv, locals, env, hist>>

ApiNext ==
    \/ api_initialize
    \/ init_dpdk_eal("idle")
    \/ init_mempool("idle")
    \/ init_port("idle")
    \/ init_shared_memory("idle", "idle")
    \/ api_warm_up
    \/ warm_dpdk_path_step
    \/ warm_up_return("idle")
    \/ api_poll_loop
    \/ poll_loop_enter
    \/ poll_loop_check("idle")
    \/ rx_burst
    \/ process_burst_step
    \/ api_stop

ApiSpec == ApiInit /\ [][ApiNext]_vars

(***************************************************************************)
(* The same client, with statistics enabled, that also calls print_stats() *)
(* and reset_stats() between its other calls.                              *)
(***************************************************************************)
MonitorInit == ApiInit /\ config_.enable_stats

MonitorNext ==
    \/ ApiNext
    \/ api_print_stats
    \/ api_reset_stats

MonitorSpec == MonitorInit /\ [][MonitorNext]_vars

(***************************************************************************)
(* A long run.  LongRunInit is the program in its poll loop after          *)
(* 2^32 - 1 frames that passed the filters (no warm-up, a ring created     *)
(* empty): one frame before the 32-bit sequence counter wraps.  Either     *)
(* every frame so far had a payload shorter than BBO_MIN_SIZE, or every    *)
(* frame was the 28-byte BBO and a consumer has emptied the ring: then the *)
(* pool head is one acquire before its wrap too.                           *)
(***************************************************************************)
\* the slot the 28-byte BBO leaves when parsed as acquire number seq
LongRunSlot(seq) ==
    parse(Traffic[1], ETH_SIZE + IP_SIZE + UDP_SIZE, U64(BBO_MIN_SIZE),
          BBOPool(TRUE), 0, seq).pool.pool_[0]

\* the pool after acquires 0 .. 2^32 - 2: slot i was last taken by the
\* latest acquire whose number is i modulo POOL_SIZE
LongRunPool ==
    [pool_ |-> [i \in 0..(POOL_SIZE - 1) |->
                   LongRunSlot(<<W16 - 1,
                                 IF i = POOL_SIZE - 1 THEN W16 - POOL_SIZE - 1
                                 ELSE W16 - POOL_SIZE + i>>)],
     head_ |-> <<W16 - 1, W16 - 1>>,
     using_hugepages_ |-> TRUE]

LongRunInit ==
    /\ config_ = [udp_port |-> DEFAULT_UDP_PORT, enable_stats |-> TRUE]
    /\ \/ /\ stats_ = [Stats0 EXCEPT
                          !.packets_received = <<0, 0, W16 - 1, W16 - 1>>,
                          !.parse_errors = <<0, 0, W16 - 1, W16 - 1>>]
          /\ bbo_pool_ = BBOPool(TRUE)
          /\ last = [frame |-> 3, passed |-> TRUE, len |-> U64(BBO_MIN_SIZE - 1),
                     seq |-> <<W16 - 1, W16 - 2>>, bbo |-> NULL, tried |-> NULL,
                     ret |-> NULL]
          /\ acquired = << >>
          /\ consumer \in BOOLEAN
       \/ /\ stats_ = [Stats0 EXCEPT
                          !.packets_received = <<0, 0, W16 - 1, W16 - 1>>,
                          !.packets_processed = <<0, 0, W16 - 1, W16 - 1>>]
          /\ bbo_pool_ = LongRunPool
          /\ last = [frame |-> 1, passed |-> TRUE, len |-> U64(BBO_MIN_SIZE),
                     seq |-> <<W16 - 1, W16 - 2>>, bbo |-> <<POOL_SIZE - 2>>,
                     tried |-> << [bbo |-> to_gateway(LongRunSlot(<<W16 - 1, W16 - 2>>)),
                                   ok |-> TRUE] >>,
                     ret |-> NULL]
          /\ acquired = <<POOL_SIZE - 2>>
          /\ consumer = TRUE
    /\ tsc_ = TSCCalibrator
    /\ mbuf_pool_ = <<"MBUF_POOL">>
    /\ dpdk_initialized_ = TRUE
    /\ ring_buffer_ = <<"ring">>
    /\ running_ = TRUE
    /\ sequence_ = <<W16 - 1, W16 - 1>>
    /\ pc = "poll_check"
    /\ g_receiver = <<"receiver">> /\ handlers = TRUE /\ exit_code = NULL
    /\ warmup_count = 0 /\ skip_warmup = TRUE
    /\ warm_count = 0 /\ warm_i = 0 /\ pkts = << >> /\ burst_i = 0
    /\ shm_exists = TRUE /\ ring = << >>
    /\ eal_up = TRUE /\ port_started = TRUE /\ link_up = TRUE
    /\ tsc_now = TscStep
    /\ delivered = 0
    /\ stop_seen = FALSE
    /\ calls = <<0, 0, W16 - 1, W16 - 1>>
    /\ passed = <<0, 0, W16 - 1, W16 - 1>>
    /\ offered = << >> /\ ring_at_map = << << >> >>
    /\ cold = NoCold /\ shm_ops = << >>
    /\ stats_thread = NoThread /\ mbuf_log = << >>
    /\ init_failed = FALSE /\ warm_entered = FALSE
    /\ poll_entered = TRUE /\ poll_returned = FALSE

LongRunSpec == (Init \/ LongRunInit) /\ [][Next]_vars

(***************************************************************************)
(* The cold-path helpers: static functions and record methods the receive  *)
(* path never calls.  A caller hands them a buffer and a length; the call  *)
(* and what it returned are kept in cold (one call per behaviour: the      *)
(* helpers are pure, a second call sees nothing of the first).             *)
(***************************************************************************)
T1_OFFSET == 28
T2_OFFSET == 32
T3_OFFSET == 36
T4_OFFSET == 40
NS_PER_CYCLE == 8

RECURSIVE WSubB(_, _, _)
\* a - b - borrow modulo 2^(16 * Len(a)), for words of the same width
WSubB(a, b, c) ==
    IF a = << >> THEN << >>
    ELSE LET n == Len(a)
             d == a[n] - b[n] - c
         IN  WSubB(SubSeq(a, 1, n - 1), SubSeq(b, 1, n - 1), IF d < 0 THEN 1 ELSE 0)
                 \o <<IF d < 0 THEN d + W16 ELSE d>>

WSub(a, b) == WSubB(a, b, 0)

RECURSIVE WMulC(_, _, _)
\* w * n + carry modulo 2^(16 * Len(w)), for a natural n < 2^15
WMulC(w, n, c) ==
    IF w = << >> THEN << >>
    ELSE LET k == Len(w)
             m == w[k] * n + c
         IN  WMulC(SubSeq(w, 1, k - 1), n, m \div W16) \o <<m % W16>>

\* FPGATimestamps(): everything zero
FPGATimestamps ==
    [t1 |-> U32(0), t2 |-> U32(0), t3 |-> U32(0), t4 |-> U32(0),
     latency_a_ns |-> U64(0), latency_b_ns |-> U64(0), total_ns |-> U64(0)]

\* FPGATimestamps::calculate_latencies: the uint32_t differences times 8 ns
\* per cycle (the doubles hold microseconds; kept here as whole nanoseconds)
calculate_latencies(ts) ==
    LET a == WMulC(<<0, 0>> \o WSub(ts.t2, ts.t1), NS_PER_CYCLE, 0)
        b == WMulC(<<0, 0>> \o WSub(ts.t4, ts.t3), NS_PER_CYCLE, 0)
    IN  [ts EXCEPT !.latency_a_ns = a, !.latency_b_ns = b, !.total_ns = WAdd(a, b)]

\* an extract that reads the four words whatever the length says
extract_timestamps_ignores_len(data, len) ==
    calculate_latencies([FPGATimestamps EXCEPT
                            !.t1 = BE32(data, T1_OFFSET), !.t2 = BE32(data, T2_OFFSET),
                            !.t3 = BE32(data, T3_OFFSET), !.t4 = BE32(data, T4_OFFSET)])

\* BBOParserFast::extract_timestamps(data, len)
extract_timestamps(data, len) ==
    IF WLess(len, BBO_FULL_SIZE)
    THEN FPGATimestamps
    ELSE calculate_latencies([FPGATimestamps EXCEPT
                                 !.t1 = BE32(data, T1_OFFSET), !.t2 = BE32(data, T2_OFFSET),
                                 !.t3 = BE32(data, T3_OFFSET), !.t4 = BE32(data, T4_OFFSET)])

\* BBOParserFast::is_valid_bbo(data, len)
is_valid_bbo(data, len) ==
    IF WLess(len, BBO_MIN_SIZE)
    THEN FALSE
    ELSE \A i \in 0..7 : ~(ByteAt(data, i) < 32 \/ ByteAt(data, i) > 126)

\* the longest string handed to set_symbol
MaxSymbol == 9      \* one more than the symbol field holds

\* the bytes of those strings: a letter, the space, the NUL
SymbolBytes == {65, SPACE, 0}

\* the big-endian timestamp words a caller's buffer may hold
TsBytes ==
    {<<0, 0, 0, 1>>, <<0, 0, 0, 5>>, <<0, 0, 0, 10>>, <<0, 0, 0, 20>>,
     <<255, 255, 255, 255>>, <<1, 2, 3, 4>>}

\* the lengths a caller may pass with its 46-byte buffer
ColdLens == {0, BBO_MIN_SIZE - 1, BBO_MIN_SIZE, BBO_FULL_SIZE - 1, BBO_FULL_SIZE,
             BBO_FULL_SIZE + 1, BBO_FULL_SIZE + 2}

\* symbols with one byte at the edges of the printable range, or beyond
ColdSymbols ==
    {[AAPL28 EXCEPT ![i] = b] : i \in 1..8, b \in {0, 31, 32, 126, 127, 255}}

ColdInit ==
    /\ Constructed([udp_port |-> DEFAULT_UDP_PORT, enable_stats |-> TRUE], TRUE)
    /\ ~shm_exists /\ ~consumer
    /\ pc = "cold"
    /\ warmup_count = 0
    /\ skip_warmup = FALSE

ColdFrame ==
    UNCHANGED <<members, mainv, locals, env, stop_seen, calls, passed, last,
                offered, ring_at_map, init_failed, warm_entered, poll_entered,
                poll_returned, acquired, shm_ops, stats_thread, mbuf_log>>

\* a caller runs extract_timestamps on a buffer of 46 bytes
call_extract_timestamps ==
    /\ pc = "cold" /\ cold = NoCold
    /\ \E t1 \in TsBytes, t2 \in TsBytes, t3 \in TsBytes, t4 \in TsBytes, n \in ColdLens :
          LET data == [data |-> AAPL28 \o t1 \o t2 \o t3 \o t4 \o <<170, 187>>,
                       stale |-> 255]
          IN  cold' = [op |-> "extract_timestamps", data |-> data, len |-> U64(n),
                       out |-> extract_timestamps(data, U64(n))]
    /\ ColdFrame

\* a caller runs is_valid_bbo on a buffer of 44 bytes
call_is_valid_bbo ==
    /\ pc = "cold" /\ cold = NoCold
    /\ \E sym \in ColdSymbols, n \in ColdLens \ {BBO_FULL_SIZE + 1, BBO_FULL_SIZE + 2} :
          LET data == [data |-> sym \o TS16, stale |-> 255]
          IN  cold' = [op |-> "is_valid_bbo", data |-> data, len |-> U64(n),
                       out |-> is_valid_bbo(data, U64(n))]
    /\ ColdFrame

\* a caller runs rec.set_symbol(s.data(), s.size()) and then rec.get_symbol()
\* on a cleared record
call_set_get_symbol ==
    /\ pc = "cold" /\ cold = NoCold
    /\ \E len \in 0..MaxSymbol :
          \E s \in [1..len -> SymbolBytes] :
             LET rec == [clear EXCEPT !.symbol = set_symbol(s, len)]
             IN  cold' = [op |-> "symbol", s |-> s, len |-> len, rec |-> rec,
                          out |-> get_symbol(rec.symbol)]
    /\ ColdFrame

\* an allocate_pool that leaves using_hugepages_ false when the mapping with
\* the explicit 2 MiB size is the one that succeeded
allocate_pool_forgets_2m(hugetlb_ok, huge2m_ok, heap_ok) ==
    IF hugetlb_ok
    THEN [calls |-> <<"mmap_hugetlb">>, pool_ |-> <<"mapping">>,
          using_hugepages_ |-> TRUE, aborted |-> FALSE]
    ELSE IF huge2m_ok
    THEN [calls |-> <<"mmap_hugetlb", "mmap_hugetlb_2m">>, pool_ |-> <<"mapping">>,
          using_hugepages_ |-> FALSE, aborted |-> FALSE]
    ELSE [calls |-> <<"mmap_hugetlb", "mmap_hugetlb_2m", "aligned_alloc_64">>,
          pool_ |-> IF heap_ok THEN <<"heap">> ELSE NULL,
          using_hugepages_ |-> FALSE, aborted |-> ~heap_ok]

\* BBOPool::allocate_pool(): mmap(MAP_HUGETLB), else mmap(MAP_HUGETLB |
\* 21 << MAP_HUGE_SHIFT), else aligned_alloc(64, size); std::abort() when
\* that returns null.  calls is what it called, in order.
allocate_pool(hugetlb_ok, huge2m_ok, heap_ok) ==
    IF hugetlb_ok
    THEN [calls |-> <<"mmap_hugetlb">>, pool_ |-> <<"mapping">>,
          using_hugepages_ |-> TRUE, aborted |-> FALSE]
    ELSE IF huge2m_ok
    THEN [calls |-> <<"mmap_hugetlb", "mmap_hugetlb_2m">>, pool_ |-> <<"mapping">>,
          using_hugepages_ |-> TRUE, aborted |-> FALSE]
    ELSE [calls |-> <<"mmap_hugetlb", "mmap_hugetlb_2m", "aligned_alloc_64">>,
          pool_ |-> IF heap_ok THEN <<"heap">> ELSE NULL,
          using_hugepages_ |-> FALSE, aborted |-> ~heap_ok]

\* ~BBOPool(): if (pool_) { using_hugepages_ ? munmap(pool_, size)
\*                                          : std::free(pool_) }
BBOPool_destroy(p) ==
    IF p.pool_ = NULL THEN << >>
    ELSE IF p.using_hugepages_ THEN <<"munmap">>
    ELSE <<"free">>

\* a BBOPool is constructed and, unless construction aborted the process,
\* destroyed; the environment decides which of the three requests succeed
call_BBOPool ==
    /\ pc = "cold" /\ cold = NoCold
    /\ \E hugetlb_ok, huge2m_ok, heap_ok \in BOOLEAN :
          LET p == allocate_pool(hugetlb_ok, huge2m_ok, heap_ok)
          IN  cold' = [op |-> "pool",
                       ok |-> <<hugetlb_ok, huge2m_ok, heap_ok>>,
                       alloc |-> p,
                       is_using_hugepages |-> p.using_hugepages_,
                       released |-> IF p.aborted THEN << >> ELSE BBOPool_destroy(p)]
    /\ ColdFrame

\* a process_burst whose prefetches are not guarded by the count
RECURSIVE process_burst_from_unguarded(_, _)
process_burst_from_unguarded(i, count) ==
    IF i >= count THEN << >>
    ELSE <<<<"prefetch0", i + 1>>, <<"prefetch_l2", i + 2>>,
           <<"process_packet", i>>, <<"free", i>>>>
         \o process_burst_from_unguarded(i + 1, count)

\* the iterations i, i + 1, ... of the loop of process_burst(pkts, count):
\* the indexes of pkts it reads, in order, and what it does with the handle
RECURSIVE process_burst_from(_, _)
process_burst_from(i, count) ==
    IF i >= count THEN << >>
    ELSE (IF i + 1 < count THEN <<<<"prefetch0", i + 1>>>> ELSE << >>)
         \o (IF i + 2 < count THEN <<<<"prefetch_l2", i + 2>>>> ELSE << >>)
         \o <<<<"process_packet", i>>, <<"free", i>>>>
         \o process_burst_from(i + 1, count)

\* DPDKReceiver::process_burst(pkts, count): for (i = 0; i < count; ++i)
process_burst(count) == process_burst_from(0, count)

\* one iteration of the loop of poll_loop when rte_eth_rx_burst returned
\* nb_rx: if (nb_rx > 0) process_burst(pkts, nb_rx)
poll_once(nb_rx) == IF nb_rx > 0 THEN process_burst(nb_rx) ELSE << >>

\* rte_eth_rx_burst(port, queue, pkts, BURST_SIZE) fills nb_rx <= BURST_SIZE
\* entries of pkts and the loop body runs on them
call_poll_once ==
    /\ pc = "cold" /\ cold = NoCold
    /\ \E nb_rx \in 0..BURST_SIZE :
          cold' = [op |-> "burst", count |-> nb_rx, accesses |-> poll_once(nb_rx)]
    /\ ColdFrame

ColdNext ==
    \/ call_extract_timestamps
    \/ call_is_valid_bbo
    \/ call_set_get_symbol
    \/ call_BBOPool
    \/ call_poll_once

ColdSpec == ColdInit /\ [][ColdNext]_vars

(***************************************************************************)
(* Properties.                                                             *)
(***************************************************************************)
\* this step ran process_packet once
Called == calls' # calls

\* the low 32 bits of a 64-bit word
Low32(w) == SubSeq(w, 3, 4)

\* the lifecycle state Stopped: stop() has been called, poll_loop has
\* returned and running is false
Stopped == stop_seen /\ poll_returned /\ ~running_

\* C1: once a shutdown signal has called stop(), at whatever moment after
\* the handlers were installed, running is false from then on (so the poll
\* loop leaves at its next check of the flag).
C1_StopIsNeverLost == stop_seen => ~running_

C3_InitFailureIsFatal ==
    init_failed =>
        /\ pc \in {"init_failed", "exited"}
        /\ ~dpdk_initialized_
        /\ ~warm_entered /\ ~poll_entered /\ ~running_
        /\ calls = U64(0)
        /\ (pc = "exited" => exit_code = <<1>>)

\* the shared-memory step failed after the port was started; main returned 1
C3_Witness ==
    init_failed /\ pc = "exited" /\ exit_code = <<1>> /\ port_started /\ ~shm_exists

\* C4: with no consumer and a ring of capacity RingCap that was empty when
\* mapped, the first RingCap publishes succeed and every later one fails;
\* ring_buffer_full counts the failed ones, packets_processed counts them
\* all, and the ring holds exactly the first RingCap records.
C4_RingFull ==
    (~consumer /\ ring_at_map = << << >> >>) =>
        LET k == Len(offered) IN
        /\ \A i \in 1..k : offered[i].ok = (i <= RingCap)
        /\ ring = [i \in 1..Min(k, RingCap) |-> offered[i].bbo]
        /\ stats_.packets_processed = U64(k)
        /\ stats_.ring_buffer_full = U64(IF k > RingCap THEN k - RingCap ELSE 0)

\* the ring is full, one publish failed, and a later packet was processed
C4_Witness ==
    /\ ~consumer /\ ring_at_map = << << >> >>
    /\ Len(offered) = RingCap + 2
    /\ ~offered[RingCap + 1].ok
    /\ stats_.ring_buffer_full = U64(2)
    /\ stats_.packets_processed = U64(RingCap + 2)
    /\ Len(ring) = RingCap

\* C5 as stated: the publish operation hands back the boolean try_publish
\* returned, calls it once, and counts a false answer in ring_buffer_full.
C5_PublishReturnsRingAnswer ==
    [][(Called /\ last'.bbo # NULL) =>
          /\ Len(last'.tried) = 1
          /\ last'.ret = <<last'.tried[1].ok>>
          /\ stats_'.ring_buffer_full =
                 IF last'.tried[1].ok THEN stats_.ring_buffer_full
                 ELSE WInc(stats_.ring_buffer_full)]_vars

\* C5, amended: convert_and_publish returns nothing; it calls try_publish
\* exactly once per record, and a false answer adds one to
\* ring_buffer_full when statistics are enabled; a true answer, or
\* disabled statistics, leave ring_buffer_full unchanged.
C5_PublishOnceAndCount ==
    [][(Called /\ last'.bbo # NULL) =>
          /\ Len(last'.tried) = 1
          /\ last'.ret = NULL
          /\ offered' = offered \o last'.tried
          /\ stats_'.ring_buffer_full =
                 IF ~last'.tried[1].ok /\ config_.enable_stats
                 THEN WInc(stats_.ring_buffer_full)
                 ELSE stats_.ring_buffer_full]_vars

\* statistics enabled: the last record was refused by the full ring and counted
C5_Witness ==
    /\ config_.enable_stats
    /\ last.bbo # NULL /\ Len(last.tried) = 1 /\ ~last.tried[1].ok
    /\ stats_.ring_buffer_full = U64(1)

\* C6: parse returns null for every length below BBO_MIN_SIZE, whatever
\* bytes follow (here the full 44-byte BBO), and leaves the pool as it was; a frame whose payload length is below BBO_MIN_SIZE
\* adds one to parse_errors, leaves packets_processed, the pool head and
\* every pool slot unchanged, and publishes nothing.
C6_ShortPayloadRejected ==
    [][Called =>
          /\ (last'.passed /\ WLess(last'.len, BBO_MIN_SIZE)) =>
                /\ \A n \in 0..(BBO_MIN_SIZE - 1) :
                      LET p == parse(Traffic[2], ETH_SIZE + IP_SIZE + UDP_SIZE, U64(n),
                                     bbo_pool_, 0, sequence_)
                      IN  p.bbo = NULL /\ p.pool = bbo_pool_
                /\ last'.bbo = NULL
                /\ bbo_pool_' = bbo_pool_
                /\ stats_'.parse_errors = WInc(stats_.parse_errors)
                /\ stats_'.packets_processed = stats_.packets_processed
                /\ stats_'.ring_buffer_full = stats_.ring_buffer_full
                /\ last'.tried = NULL
                /\ offered' = offered /\ ring' = ring]_vars

\* a 27-byte payload was rejected after a record had been parsed into the pool
C6_Witness ==
    /\ last.frame = 3 /\ last.passed /\ last.len = U64(BBO_MIN_SIZE - 1)
    /\ last.bbo = NULL
    /\ stats_.parse_errors = U64(1)
    /\ bbo_pool_.head_ = U32(1)

\* C7: a frame that passes the filters and whose dgram_len field describes
\* a payload of fewer than BBO_MIN_SIZE bytes (dgram_len - 8 < 28, fields
\* below 8 included) is a parse error: parse_errors is incremented, no
\* pool slot is acquired and nothing is published.
C7_ShortDgramLenIsTruncated ==
    [][(Called /\ PassesFilters(last'.frame)
          /\ Info(last'.frame).dgram_len - UDP_SIZE < BBO_MIN_SIZE) =>
          /\ stats_'.parse_errors = WInc(stats_.parse_errors)
          /\ bbo_pool_' = bbo_pool_
          /\ offered' = offered /\ ring' = ring]_vars

\* C8: a frame that is not IPv4, not UDP, or not addressed to the
\* configured port changes nothing: the four counters, the sequence
\* counter and the pool stay as they were and try_publish is not called.
C8_SilentFilter ==
    [][(Called /\ ~PassesFilters(last'.frame)) =>
          /\ stats_' = stats_
          /\ sequence_' = sequence_
          /\ bbo_pool_' = bbo_pool_
          /\ ring' = ring /\ offered' = offered
          /\ last'.tried = NULL /\ ~last'.passed]_vars

\* a frame to another port was dropped after one frame had been counted
C8_Witness ==
    /\ last.frame = 7 /\ ~last.passed
    /\ calls = U64(2)
    /\ stats_.packets_received = U64(1)
    /\ sequence_ = U32(1)

\* C9: packets_received counts the frames that passed the filters,
\* packets_processed those handed to the publisher, parse_errors the rest:
\* packets_received = packets_processed + parse_errors after every
\* completed process_packet, in warm-up and in the poll loop.
C9_ReceivedIsProcessedPlusErrors ==
    /\ stats_.packets_received = passed
    /\ stats_.packets_processed = U64(Len(offered))
    /\ stats_.packets_received = WAdd(stats_.packets_processed, stats_.parse_errors)

\* three frames passed the filters: two were published, one was a parse error
C9_Witness ==
    /\ stats_.packets_received = U64(3)
    /\ stats_.packets_processed = U64(2)
    /\ stats_.parse_errors = U64(1)
    /\ warm_entered /\ poll_entered

\* C10: the k-th frame that passes the filters (k from 0, warm-up frames
\* included) is parsed with sequence k mod 2^32 and advances the counter
\* by one whether or not the parse succeeds; the slot it fills stores that
\* number; a filtered frame leaves the counter alone.
C10_SequencePerPassingFrame ==
    [][Called =>
          IF PassesFilters(last'.frame)
          THEN /\ last'.seq = Low32(passed)
               /\ sequence_ = Low32(passed)
               /\ sequence_' = WInc(sequence_)
               /\ last'.bbo # NULL =>
                     bbo_pool_'.pool_[last'.bbo[1]].sequence = Low32(passed)
          ELSE /\ sequence_' = sequence_
               /\ last'.seq = NULL]_vars

\* past the wrap: frame number 2^32 was parsed with sequence 0 into a slot
C10_Witness ==
    /\ passed = <<0, 1, 0, 1>>
    /\ last.seq = U32(0) /\ last.bbo # NULL
    /\ bbo_pool_.pool_[last.bbo[1]].sequence = U32(0)
    /\ sequence_ = U32(1)

\* C11: acquire always hands out a slot, and each acquire returns the slot
\* whose index is the previous acquire's index plus one modulo POOL_SIZE,
\* the head counter advancing by one in 32 bits; this holds across the
\* wrap of the head from 2^32 - 1 to 0.
C11_RoundRobinAcquire ==
    [][Called =>
          /\ (PassesFilters(last'.frame) /\ ~WLess(last'.len, BBO_MIN_SIZE))
                => last'.bbo # NULL
          /\ last'.bbo # NULL =>
                /\ last'.bbo[1] \in 0..(POOL_SIZE - 1)
                /\ bbo_pool_'.head_ = WInc(bbo_pool_.head_)
                /\ acquired' = Append(acquired, last'.bbo[1])
                /\ acquired # << >> =>
                      last'.bbo[1] = (acquired[Len(acquired)] + 1) % POOL_SIZE
          /\ last'.bbo = NULL =>
                /\ acquired' = acquired
                /\ bbo_pool_'.head_ = bbo_pool_.head_]_vars

\* the head has wrapped: the slots taken around the wrap are N-2, N-1, 0
C11_Witness ==
    /\ acquired = <<POOL_SIZE - 2, POOL_SIZE - 1, 0>>
    /\ bbo_pool_.head_ = U32(1)
    /\ passed = <<0, 1, 0, 1>>

\* C12: two acquires return the same slot exactly when their numbers differ
\* by a multiple of POOL_SIZE (acquire k and acquire k + POOL_SIZE do, the
\* POOL_SIZE - 1 acquires between them do not; stated for each acquire
\* against all those before it), and a slot's contents change only in the
\* parse call that has just acquired it.
C12_PoolWrapAndExclusivity ==
    [][/\ acquired' # acquired =>
             LET j == Len(acquired')
             IN  /\ acquired' = Append(acquired, acquired'[j])
                 /\ \A k \in 1..(j - 1) :
                       (acquired'[j] = acquired'[k]) <=> ((j - k) % POOL_SIZE = 0)
       /\ bbo_pool_'.pool_ # bbo_pool_.pool_ =>
             /\ Called /\ last'.bbo # NULL
             /\ \A i \in 0..(POOL_SIZE - 1) :
                   bbo_pool_'.pool_[i] # bbo_pool_.pool_[i] => i = last'.bbo[1]]_vars

\* acquire number POOL_SIZE + 1 returned the slot of acquire number 1 and the
\* slot now holds the later record
C12_Witness ==
    /\ Len(acquired) = POOL_SIZE + 1
    /\ acquired[POOL_SIZE + 1] = acquired[1]
    /\ last.bbo = <<acquired[1]>>
    /\ bbo_pool_.pool_[acquired[1]].sequence = last.seq
    /\ last.seq # U32(0)

\* C13: a process_packet call leaves every record already stored in the
\* ring as it is, also when the call overwrites the pool slot a stored
\* record was converted from; the record it stores is the conversion of
\* the slot as parse has just filled it.
C13_PublishedRecordsAreCopies ==
    [][Called =>
          /\ Len(ring') >= Len(ring)
          /\ \A j \in 1..Len(ring) : ring'[j] = ring[j]
          /\ (last'.tried # NULL /\ last'.tried[1].ok) =>
                /\ Len(ring') = Len(ring) + 1
                /\ ring'[Len(ring')] = to_gateway(bbo_pool_'.pool_[last'.bbo[1]])]_vars

\* the slot of the first published record has been taken again and holds a
\* later record; the ring still holds the first record as published
C13_Witness ==
    /\ ~consumer /\ ring_at_map = << << >> >>
    /\ Len(acquired) = POOL_SIZE + 1
    /\ ring # << >> /\ offered[1].ok /\ ring[1] = offered[1].bbo
    /\ ring[1].timestamp_ns # bbo_pool_.pool_[acquired[1]].timestamp_ns

\* C14: parse accepts every length from BBO_MIN_SIZE up, beyond BBO_FULL_SIZE
\* included; the slot it returns has valid = 1, the timestamp and the
\* sequence number it was handed, and flags = HAS_FPGA_TIMESTAMPS exactly
\* when len >= BBO_FULL_SIZE, 0 otherwise, whatever the slot held before;
\* a longer payload gives the record of its first BBO_FULL_SIZE bytes
\* (every length 28..46 is tried on the 44-byte frame, two bytes appended,
\* with the pool as it is when that frame arrives).
C14_ParseStampsAndFlags ==
    [][Called =>
          /\ last'.frame = 2 =>
             LET off == ETH_SIZE + IP_SIZE + UDP_SIZE
                 longer == [Traffic[2] EXCEPT !.data = @ \o <<170, 187>>]
                 full == parse(Traffic[2], off, U64(BBO_FULL_SIZE), bbo_pool_,
                               tsc_now, sequence_)
             IN  \A n \in BBO_MIN_SIZE..(BBO_FULL_SIZE + 2) :
                    LET p == parse(longer, off, U64(n), bbo_pool_, tsc_now, sequence_)
                    IN  /\ p.bbo # NULL
                        /\ p.bbo = full.bbo
                        /\ p.pool.head_ = full.pool.head_
                        /\ p.pool.pool_[p.bbo[1]] =
                              [full.pool.pool_[full.bbo[1]] EXCEPT
                                  !.valid = 1, !.timestamp_ns = tsc_now,
                                  !.sequence = sequence_,
                                  !.flags = IF n >= BBO_FULL_SIZE
                                            THEN HAS_FPGA_TIMESTAMPS ELSE 0]
                        /\ n >= BBO_FULL_SIZE => p = full
          /\ last'.bbo # NULL =>
                LET slot == bbo_pool_'.pool_[last'.bbo[1]]
                IN  /\ slot.valid = 1
                    /\ slot.timestamp_ns = cycles_to_ns(tsc_, tsc_now)
                    /\ slot.sequence = sequence_
                    /\ slot.flags = (IF WLess(last'.len, BBO_FULL_SIZE)
                                     THEN 0 ELSE HAS_FPGA_TIMESTAMPS)]_vars

\* the slot that held the warm-up record (44 bytes, flag set) was taken
\* again for a 28-byte payload and now has no flag
C14_Witness ==
    /\ Len(acquired) = POOL_SIZE + 1
    /\ offered # << >>
    /\ SubSeq(offered[1].bbo.symbol, 1, 8) = WARMUP_SYMBOL
    /\ last.bbo = <<acquired[1]>>
    /\ last.len = U64(BBO_MIN_SIZE)
    /\ bbo_pool_.pool_[acquired[1]].flags = 0
    /\ bbo_pool_.pool_[acquired[1]].valid = 1

\* the slot of the 28-byte payload 41 41 50 4C 20 20 20 20 | 00 16 E3 60 |
\* 00 00 00 64 | 00 16 E5 A0 | 00 00 00 64 | 00 00 27 10 holds symbol "AAPL"
\* (trimmed), bid 1500000, bid shares 100, the given ask, ask shares 100,
\* spread 10000 (prices in units of 1e-4), valid 1, flags 0
MinimalParseYields(ask_raw) ==
    (Called /\ last'.frame = 1) =>
          /\ SubSeq(Traffic[1].data, ETH_SIZE + IP_SIZE + UDP_SIZE + 1,
                    Len(Traffic[1].data)) =
                <<65, 65, 80, 76, 32, 32, 32, 32,  0, 22, 227, 96,  0, 0, 0, 100,
                  0, 22, 229, 160,  0, 0, 0, 100,  0, 0, 39, 16>>
          /\ last'.len = U64(BBO_MIN_SIZE)
          /\ last'.bbo # NULL
          /\ LET slot == bbo_pool_'.pool_[last'.bbo[1]]
             IN  /\ get_symbol(slot.symbol) = <<65, 65, 80, 76>>
                 /\ slot.symbol = <<65, 65, 80, 76, 32, 32, 32, 32>>
                 /\ slot.bid_price = U32(1500000)
                 /\ slot.bid_shares = U32(100)
                 /\ slot.ask_price = U32(ask_raw)
                 /\ slot.ask_shares = U32(100)
                 /\ slot.spread = U32(10000)
                 /\ slot.valid = 1
                 /\ slot.flags = 0

\* C15 as stated: the minimal parse scenario yields ask 150.1000 (raw
\* 1501000) beside bid 150.0000, shares 100, spread 1.0000, symbol "AAPL",
\* valid 1 and flags 0.
C15_MinimalParseAsStated == [][MinimalParseYields(1501000)]_vars

\* C15, amended: the bytes 00 16 E5 A0 at the ask offset are the big-endian
\* value 1500576, so the scenario yields ask 150.0576; every other field
\* is as stated (bid 150.0000, shares 100, spread 1.0000, symbol "AAPL",
\* valid 1, flags 0).
C15_MinimalParse == [][MinimalParseYields(1500576)]_vars

\* the payload was received and parsed into the slot the pool handed out
C15_Witness ==
    /\ last.frame = 1
    /\ last.bbo # NULL
    /\ bbo_pool_.pool_[last.bbo[1]].bid_price = U32(1500000)
    /\ bbo_pool_.pool_[last.bbo[1]].ask_price = U32(1500576)
    /\ get_symbol(bbo_pool_.pool_[last.bbo[1]].symbol) = <<65, 65, 80, 76>>

\* C16: for len >= 44 extract_timestamps returns t1..t4 as the big-endian
\* words at offsets 28, 32, 36 and 40, latency_a = 8 ns times the 32-bit
\* unsigned difference t2 - t1 (the d below 2^32 with t1 + d = t2 modulo
\* 2^32), latency_b likewise from t4 - t3, and their sum as the total;
\* t1 = 1, t2 = 5, t3 = 10, t4 = 20 give 32 ns and 80 ns; for len < 44
\* every timestamp and latency is zero.
C16_ExtractTimestamps ==
    cold.op = "extract_timestamps" =>
       LET out == cold.out
           Zero32 == <<0, 0>>
           Zero64 == <<0, 0, 0, 0>>
           Eighth(w) == [i \in 1..4 |-> (w[i] \div 8)
                                         + (IF i > 1 THEN (w[i - 1] % 8) * (W16 \div 8) ELSE 0)]
           IsLatency(ns, from, to) ==
               /\ ns[4] % 8 = 0
               /\ Eighth(ns)[1] = 0 /\ Eighth(ns)[2] = 0
               /\ WAdd(from, <<Eighth(ns)[3], Eighth(ns)[4]>>) = to
       IN  IF cold.len[1] = 0 /\ cold.len[2] = 0 /\ cold.len[3] = 0 /\ cold.len[4] < 44
           THEN /\ out.t1 = Zero32 /\ out.t2 = Zero32 /\ out.t3 = Zero32 /\ out.t4 = Zero32
                /\ out.latency_a_ns = Zero64 /\ out.latency_b_ns = Zero64
                /\ out.total_ns = Zero64
           ELSE /\ out.t1 = BE32(cold.data, 28) /\ out.t2 = BE32(cold.data, 32)
                /\ out.t3 = BE32(cold.data, 36) /\ out.t4 = BE32(cold.data, 40)
                /\ IsLatency(out.latency_a_ns, out.t1, out.t2)
                /\ IsLatency(out.latency_b_ns, out.t3, out.t4)
                /\ out.total_ns = WAdd(out.latency_a_ns, out.latency_b_ns)
                /\ (out.t1 = <<0, 1>> /\ out.t2 = <<0, 5>>) => out.latency_a_ns = <<0, 0, 0, 32>>
                /\ (out.t3 = <<0, 10>> /\ out.t4 = <<0, 20>>) => out.latency_b_ns = <<0, 0, 0, 80>>
                /\ (out.t1 = <<0, 5>> /\ out.t2 = <<0, 1>>) =>
                       out.latency_a_ns = <<0, 7, W16 - 1, W16 - 32>>

\* the scenario of the full BBO: t1 = 1, t2 = 5, t3 = 10, t4 = 20 extracted
\* from a 44-byte payload
C16_Witness ==
    /\ cold.op = "extract_timestamps"
    /\ cold.len = U64(BBO_FULL_SIZE)
    /\ SubSeq(cold.data.data, 29, 44) = TS16
    /\ cold.out.t1 = U32(1) /\ cold.out.t2 = U32(5)
    /\ cold.out.t3 = U32(10) /\ cold.out.t4 = U32(20)
    /\ cold.out.latency_a_ns = U64(32)
    /\ cold.out.latency_b_ns = U64(80)
    /\ cold.out.total_ns = U64(112)

\* C17: the record handed to try_publish has the 8 bytes of the fast
\* record's symbol, then 7 spaces, then a NUL; its prices, shares, spread
\* and timestamp are those of the fast record and it is valid; each of its
\* nine hardware-timestamp fields is zero, whether or not the fast record
\* has HAS_FPGA_TIMESTAMPS set.
C17_WidenedRecord ==
    [][(Called /\ last'.tried # NULL) =>
          LET fast == bbo_pool_'.pool_[last'.bbo[1]]
              rec == last'.tried[1].bbo
          IN  /\ Len(rec.symbol) = 16
              /\ \A i \in 1..8 : rec.symbol[i] = fast.symbol[i]
              /\ \A i \in 9..15 : rec.symbol[i] = 32
              /\ rec.symbol[16] = 0
              /\ rec.bid_price = fast.bid_price /\ rec.ask_price = fast.ask_price
              /\ rec.bid_shares = fast.bid_shares /\ rec.ask_shares = fast.ask_shares
              /\ rec.spread = fast.spread
              /\ rec.timestamp_ns = fast.timestamp_ns
              /\ fast.valid = 1 /\ rec.valid = TRUE
              /\ fast.flags \in {0, HAS_FPGA_TIMESTAMPS}
              /\ rec.fpga_ts_t1 = 0 /\ rec.fpga_ts_t2 = 0
              /\ rec.fpga_ts_t3 = 0 /\ rec.fpga_ts_t4 = 0
              /\ rec.fpga_latency_a_us = 0 /\ rec.fpga_latency_b_us = 0
              /\ rec.fpga_latency_us = 0
              /\ rec.fpga_rx_timestamp = 0 /\ rec.fpga_tx_timestamp = 0]_vars

\* the 44-byte BBO from the wire: its slot has the flag, the record handed
\* to the ring has no timestamps
C17_Witness ==
    /\ last.frame = 2
    /\ last.tried # NULL
    /\ bbo_pool_.pool_[last.bbo[1]].flags = HAS_FPGA_TIMESTAMPS
    /\ SubSeq(last.tried[1].bbo.symbol, 1, 8) = bbo_pool_.pool_[last.bbo[1]].symbol
    /\ last.tried[1].bbo.symbol[16] = 0
    /\ last.tried[1].bbo.fpga_ts_t1 = 0
    /\ last.tried[1].bbo.fpga_ts_t4 = 0

\* out is s without its longest tail of bytes from junk
IsStripped(out, s, junk) ==
    /\ Len(out) <= Len(s)
    /\ out = SubSeq(s, 1, Len(out))
    /\ out # << >> => out[Len(out)] \notin junk
    /\ \A i \in (Len(out) + 1)..Len(s) : s[i] \in junk

FrameOf(ev) == IF ev.frame = DUMMY THEN create_dummy_packet(config_) ELSE Mbuf(ev.frame)

\* the BBO payload of that frame, as a buffer of its own
PayloadOf(ev) ==
    [data |-> SubSeq(FrameOf(ev).data, ETH_SIZE + IP_SIZE + UDP_SIZE + 1,
                     Len(FrameOf(ev).data)),
     stale |-> FrameOf(ev).stale]

\* C19 as stated: every valid record of the pool has its 8 symbol bytes in
\* 0x20..0x7E; a payload with a symbol byte outside that set is not turned
\* into a valid record.
C19_SymbolBytesPrintable ==
    \A i \in 0..(POOL_SIZE - 1) :
       bbo_pool_.pool_[i].valid = 1 =>
          \A k \in 1..8 : bbo_pool_.pool_[i].symbol[k] \in 32..126

\* C19, amended: parse does not look at the symbol.  Every frame that
\* passes the filters with a payload of at least BBO_MIN_SIZE bytes is
\* parsed, and the record has valid = 1 and the payload's first 8 bytes as
\* its symbol, whatever their values.  The separate is_valid_bbo(data, len)
\* is true exactly when len >= 28 and the 8 bytes are all in 0x20..0x7E;
\* nothing in the receive path depends on it.
C19_SymbolNotValidated ==
    [][Called =>
          /\ (PassesFilters(last'.frame) /\ ~WLess(last'.len, BBO_MIN_SIZE))
                => last'.bbo # NULL
          /\ last'.bbo # NULL =>
                /\ bbo_pool_'.pool_[last'.bbo[1]].valid = 1
                /\ bbo_pool_'.pool_[last'.bbo[1]].symbol
                      = SubSeq(PayloadOf(last').data, 1, 8)
          /\ last'.passed =>
                (is_valid_bbo(PayloadOf(last'), last'.len)
                    <=> /\ ~(last'.len[1] = 0 /\ last'.len[2] = 0 /\ last'.len[3] = 0
                                /\ last'.len[4] < 28)
                        /\ \A k \in 1..8 :
                               IF k <= Len(PayloadOf(last').data)
                               THEN PayloadOf(last').data[k] \in 32..126
                               ELSE PayloadOf(last').stale \in 32..126)]_vars

\* the payload whose symbol holds NUL, control and non-ASCII bytes became a
\* valid record and was handed to the ring; is_valid_bbo rejects it
C19_Witness ==
    /\ last.frame = 9
    /\ last.bbo # NULL
    /\ bbo_pool_.pool_[last.bbo[1]].valid = 1
    /\ bbo_pool_.pool_[last.bbo[1]].symbol = <<65, 0, 7, 255, 127, 31, 32, 90>>
    /\ last.tried # NULL
    /\ SubSeq(last.tried[1].bbo.symbol, 1, 8) = <<65, 0, 7, 255, 127, 31, 32, 90>>
    /\ ~is_valid_bbo(PayloadOf(last), last.len)

\* C20: init_shared_memory first opens the existing segment.  If it opens
\* and maps, the ring in it is used as found: nothing is unlinked, created
\* or initialized.  Only after the open or the map of the existing segment
\* has failed is the name unlinked, a segment created, truncated, mapped
\* and the ring placement-initialized, in that order; a failure after the
\* creation unlinks the segment again.  The ring is initialized by this
\* process exactly when the call succeeds with a segment it created.
C20_AttachOrCreate ==
    [][(pc = "init_shared_memory" /\ pc' # pc) =>
          LET NotClose(x) == x # "close"
              ops == SelectSeq(shm_ops', NotClose)
              Has(x) == \E i \in 1..Len(ops) : ops[i] = x
              attached == Len(ops) >= 2 /\ ops[1] = "open" /\ ops[2] = "mmap"
              rest == IF ops[1] = "open" THEN SubSeq(ops, 3, Len(ops))
                      ELSE SubSeq(ops, 2, Len(ops))
              succeeded == dpdk_initialized_' /\ ring_buffer_' # NULL
          IN  /\ ops # << >>
              /\ ops[1] = (IF shm_exists THEN "open" ELSE "open_failed")
              /\ ops[1] = "open" => ops[2] \in {"mmap", "mmap_failed"}
              /\ attached =>
                    /\ ops = <<"open", "mmap">>
                    /\ succeeded
                    /\ ring' = ring /\ ring_at_map' = <<ring>>
                    /\ shm_exists' /\ shm_exists
              /\ ~attached =>
                    /\ rest \in {<<"unlink", "create_failed">>,
                                 <<"unlink", "create", "ftruncate_failed", "unlink">>,
                                 <<"unlink", "create", "ftruncate", "mmap_failed", "unlink">>,
                                 <<"unlink", "create", "ftruncate", "mmap", "new">>}
                    /\ succeeded <=> Has("new")
                    /\ succeeded => (ring' = << >> /\ shm_exists')
                    /\ ~succeeded => (~shm_exists' /\ init_failed' /\ ring' = ring)
              /\ (Has("unlink") \/ Has("create") \/ Has("create_failed")) => ~attached
              /\ Has("new") <=> (succeeded /\ Has("create"))]_vars

\* the call attached to a segment holding a record of an earlier producer
\* and left it there
C20_Witness ==
    /\ shm_ops = <<"open", "mmap", "close">>
    /\ dpdk_initialized_
    /\ ring_buffer_ # NULL
    /\ ring = <<OldRecord>>
    /\ ring_at_map = <<ring>>

\* C21: when init_shared_memory has returned, its calls show on every path
\* that each descriptor shm_open returned (on the existing or on the created
\* segment) was closed exactly once, before another descriptor was opened; where a mapping was attempted the close is the call right after
\* the mmap; the paths on which ftruncate or mmap of the created segment
\* fails end with the unlink of that segment.
C21_DescriptorsClosed ==
    LET ops == shm_ops
        n == Len(ops)
        Opens(i) == ops[i] \in {"open", "create"}
        Maps(i) == ops[i] \in {"mmap", "mmap_failed"}
    IN  /\ \A i \in 1..n :
              Opens(i) =>
                 \E c \in (i + 1)..n :
                    /\ ops[c] = "close"
                    /\ \A k \in (i + 1)..(c - 1) : ~Opens(k) /\ ops[k] # "close"
                    /\ \A k \in (c + 1)..n :
                          ops[k] = "close" => \E o \in (c + 1)..(k - 1) : Opens(o)
        /\ \A c \in 1..n :
              ops[c] = "close" =>
                 \E i \in 1..(c - 1) :
                    Opens(i) /\ \A k \in (i + 1)..(c - 1) : ops[k] # "close"
        /\ \A i \in 1..n : Maps(i) => (i < n /\ ops[i + 1] = "close")
        /\ \A i \in 1..n :
              (ops[i] = "ftruncate_failed" \/ (ops[i] = "mmap_failed" /\ i > 3)) =>
                 (ops[n] = "unlink" /\ ~shm_exists /\ init_failed)
        /\ pc = "initialized" => (n >= 3 /\ "close" \in {ops[i] : i \in 1..n})

\* the existing segment could not be mapped and the created one could not
\* either: two descriptors, each closed after its mmap, the segment unlinked
C21_Witness ==
    /\ shm_ops = <<"open", "mmap_failed", "close", "unlink", "create", "ftruncate",
                   "mmap_failed", "close", "unlink">>
    /\ init_failed
    /\ ~shm_exists
    /\ ring_buffer_ = NULL

\* C22: once main() has returned, and the receiver with it has been
\* destroyed, everything the receiver acquired has been released: the ring
\* mapping is disconnected and the port is no longer started, whatever
\* initialize returned.
C22_ReleasedOnDestruction ==
    pc = "exited" => (ring_buffer_ = NULL /\ ~port_started)

\* C23: pool construction requests a huge-page mapping, then one with the
\* explicit 2 MiB size, then a 64-byte-aligned allocation, in that order and
\* stopping at the first that succeeds; is_using_hugepages() is true exactly
\* when one of the two mappings succeeded; the process aborts exactly when
\* all three fail; destruction unmaps a mapping and frees an allocation.
C23_PoolBacking ==
    cold.op = "pool" =>
       LET order == <<"mmap_hugetlb", "mmap_hugetlb_2m", "aligned_alloc_64">>
           first == IF cold.ok[1] THEN 1 ELSE IF cold.ok[2] THEN 2 ELSE 3
       IN  /\ cold.alloc.calls = SubSeq(order, 1, first)
           /\ cold.is_using_hugepages = (cold.ok[1] \/ cold.ok[2])
           /\ cold.alloc.aborted = (~cold.ok[1] /\ ~cold.ok[2] /\ ~cold.ok[3])
           /\ ~cold.alloc.aborted =>
                 cold.released = IF cold.ok[1] \/ cold.ok[2] THEN <<"munmap">>
                                 ELSE <<"free">>
           /\ cold.alloc.aborted => cold.released = << >>

\* the first mapping failed, the one with the 2 MiB size succeeded
C23_Witness ==
    /\ cold.op = "pool"
    /\ cold.ok = <<FALSE, TRUE, TRUE>>
    /\ cold.alloc.calls = <<"mmap_hugetlb", "mmap_hugetlb_2m">>
    /\ cold.is_using_hugepages
    /\ cold.released = <<"munmap">>

\* C24: the calibration is complete when the receiver exists: whenever
\* process_packet runs (the first warm-up packet included) and whenever the
\* poll loop tests its flag, tsc_ holds what calibrate() wrote and not the
\* zeros of the member initializers; and no step of initialize, warm_up,
\* poll_loop, process_packet, print_stats, reset_stats or stop changes
\* ns_per_cycle_, cycles_per_ns_ or base_tsc_.
C24_CalibratedBeforeUse ==
    [][/\ tsc_' = tsc_
       /\ (Called \/ pc = "poll_check") =>
             /\ tsc_ = calibrate(0, CalCycles, CalCycles)
             /\ tsc_ # TSCCalibrator0
             /\ tsc_.ns > 0 /\ tsc_.cycles > 0]_vars

\* the client has warmed up, polled, processed packets, reset the counters
\* and stopped; the calibration is the constructor's
C24_Witness ==
    /\ pc = "idle"
    /\ warm_entered /\ poll_returned /\ stop_seen
    /\ calls = U64(2) /\ passed = U64(2)
    /\ stats_ = Stats0
    /\ tsc_ = calibrate(0, CalCycles, CalCycles)

\* C25: once initialize has returned, no step of the poll loop (poll_loop,
\* rx_burst, process_burst, process_packet, parse, convert_and_publish)
\* allocates or releases memory: the slot array keeps the POOL_SIZE slots and
\* the backing it got at construction, the buffer pool and the ring mapping
\* are the ones initialize made, no buffer is allocated from the pool, and
\* the slot a record is parsed into is one of the POOL_SIZE slots of the array.
C25_NoAllocationOnHotPath ==
    [][(pc \in {"poll_loop", "poll_check", "rx_burst", "process_burst"}) =>
          LET IsAlloc(x) == x[1] = "alloc"
          IN
          /\ dpdk_initialized_
          /\ DOMAIN bbo_pool_.pool_ = 0..(POOL_SIZE - 1)
          /\ DOMAIN bbo_pool_'.pool_ = 0..(POOL_SIZE - 1)
          /\ bbo_pool_'.using_hugepages_ = bbo_pool_.using_hugepages_
          /\ mbuf_pool_' = mbuf_pool_ /\ mbuf_pool_ # NULL
          /\ ring_buffer_' = ring_buffer_ /\ ring_buffer_ # NULL
          /\ shm_exists' = shm_exists
          /\ SelectSeq(mbuf_log', IsAlloc) = SelectSeq(mbuf_log, IsAlloc)
          /\ (Called /\ last'.bbo # NULL) =>
                /\ last'.bbo[1] \in 0..(POOL_SIZE - 1)
                /\ last'.tried[1].bbo = to_gateway(bbo_pool_'.pool_[last'.bbo[1]])
      ]_vars

\* the poll loop has parsed more records than the array has slots
C25_Witness ==
    /\ pc = "poll_check"
    /\ Len(acquired) = POOL_SIZE + 1
    /\ acquired[Len(acquired)] = 0
    /\ DOMAIN bbo_pool_.pool_ = 0..(POOL_SIZE - 1)
    /\ mbuf_log[Len(mbuf_log)] = <<"free", 2>>

\* C26: whatever the receive thread does meanwhile, the statistics thread
\* loads nothing but the four statistics counters and the running flag: it
\* never reads the slot pool, its head counter included, or the ring.
C26_StatsThreadReadsCountersOnly ==
    stats_thread.loads \subseteq
       {"stats_.packets_received", "stats_.packets_processed", "stats_.parse_errors",
        "stats_.ring_buffer_full", "running_"}

\* the four monitored counters
Monitored == {"packets_received", "packets_processed", "parse_errors", "ring_buffer_full"}

\* a < b for two unsigned words of the same width
RECURSIVE WBelow(_, _)
WBelow(a, b) ==
    IF a = << >> THEN FALSE
    ELSE IF Head(a) # Head(b) THEN Head(a) < Head(b)
    ELSE WBelow(Tail(a), Tail(b))

\* process_packet left counter c as it was or added one to it
CountedOne(c) == stats_'[c] = stats_[c] \/ stats_'[c] = WInc(stats_[c])

\* C27 as stated: over any sequence of public operations none of
\* packets_received, packets_processed, parse_errors and ring_buffer_full
\* ever decreases, and a counter changes only in a process_packet call of
\* the receive thread.
C27_CountersMonotone ==
    [][/\ \A c \in Monitored : ~WBelow(stats_'[c], stats_[c])
       /\ stats_' # stats_ => Called]_vars

\* C27, amended: the counters change only in process_packet, which adds at
\* most one to each of the four and leaves packets_dropped alone, and in
\* reset_stats(), a public operation that stores 0 into all five; between
\* two calls of reset_stats no counter decreases.
C27_MonotoneBetweenResets ==
    [][stats_' # stats_ =>
          \/ /\ Called
             /\ \A c \in Monitored : CountedOne(c) /\ ~WBelow(stats_'[c], stats_[c])
             /\ stats_'.packets_dropped = stats_.packets_dropped
          \/ /\ ~Called
             /\ pc = "idle" /\ pc' = "idle"
             /\ stats_' = Stats0]_vars

\* two packets were counted, the client reset the counters and polled
\* again, and one more packet has been counted since
C27_Witness ==
    /\ calls = U64(3) /\ passed = U64(3)
    /\ stats_.packets_received = U64(1)
    /\ poll_returned

\* C28: a link that is down and a promiscuous enable that failed are
\* warnings: wherever init_port is entered it can return true with the port
\* started for each of the four outcomes of the two, and it returns false
\* only when the port was not started; once initialize has succeeded with
\* the link down, every receive of the poll loop returns zero packets and
\* leaves the counters, the sequence number, the slot pool and the ring alone.
C28_WarningsNotErrors ==
    [][/\ (pc = "init_port") =>
             \A promisc_ok, link \in BOOLEAN :
                ENABLED (/\ init_port_with("init_failed", promisc_ok, link)
                         /\ pc' = "init_shared_memory"
                         /\ port_started'
                         /\ link_up' = link)
       /\ (pc = "init_port" /\ pc' = "init_failed") => ~port_started'
       /\ (pc = "rx_burst" /\ pc' # pc /\ ~link_up) =>
             /\ dpdk_initialized_ /\ port_started
             /\ pkts' = << >>
             /\ pc' = "poll_check"
             /\ UNCHANGED <<stats_, sequence_, bbo_pool_, ring, calls, offered,
                            acquired, delivered>>
      ]_vars

\* initialize succeeded with the link down and the poll loop is polling:
\* nothing has been received, counted, acquired or published
C28_Witness ==
    /\ pc = "rx_burst"
    /\ dpdk_initialized_ /\ port_started /\ ~link_up
    /\ running_ /\ poll_entered
    /\ skip_warmup
    /\ stats_ = Stats0 /\ calls = U64(0) /\ acquired = << >> /\ offered = << >>

\* C29: warm_up runs the configured number of iterations; an iteration whose
\* buffer allocation succeeds calls process_packet on the synthetic frame,
\* which passes the ethertype, protocol and port filters and parses with a
\* 44-byte payload: packets_received and packets_processed go up by one,
\* parse_errors stays, one sequence number and one pool slot are consumed,
\* try_publish is attempted exactly once, and the buffer is freed; an
\* iteration whose allocation fails changes only the loop counter.
C29_WarmUpIsHotPath ==
    [][/\ (pc = "warm_up" /\ warm_i' # warm_i) =>
             /\ warm_i' = warm_i + 1 /\ warm_i < warmup_count
             /\ IF Called
                THEN /\ last'.frame = DUMMY
                     /\ last'.passed
                     /\ last'.len = U64(DUMMY_BBO_SIZE)
                     /\ last'.bbo # NULL
                     /\ stats_'.packets_received = WInc(stats_.packets_received)
                     /\ stats_'.packets_processed = WInc(stats_.packets_processed)
                     /\ stats_'.parse_errors = stats_.parse_errors
                     /\ sequence_' = WInc(sequence_)
                     /\ last'.seq = sequence_
                     /\ bbo_pool_'.head_ = WInc(bbo_pool_.head_)
                     /\ acquired' = acquired \o last'.bbo
                     /\ Len(last'.tried) = 1
                     /\ offered' = offered \o last'.tried
                     /\ mbuf_log' = mbuf_log \o <<<<"alloc", DummyMbuf>>,
                                                  <<"process", DummyMbuf>>,
                                                  <<"free", DummyMbuf>>>>
                ELSE UNCHANGED <<members, ring, calls, offered, acquired, mbuf_log>>
       /\ (pc = "warm_up" /\ pc' # pc) => warm_i = warmup_count
      ]_vars

\* the warm-up has run its one iteration on an allocated buffer
C29_Witness ==
    /\ pc = "poll_loop"
    /\ warm_i = 1 /\ warmup_count = 1
    /\ calls = U64(1)
    /\ last.frame = DUMMY /\ last.len = U64(DUMMY_BBO_SIZE)
    /\ stats_.packets_received = U64(1) /\ stats_.packets_processed = U64(1)
    /\ stats_.parse_errors = U64(0)
    /\ sequence_ = U32(1)
    /\ Len(acquired) = 1 /\ Len(offered) = 1
    /\ mbuf_log = <<<<"alloc", DummyMbuf>>, <<"process", DummyMbuf>>, <<"free", DummyMbuf>>>>

\* the buffers of the current burst that process_burst has not reached yet
Held == {pkts[i] : i \in (burst_i + 1)..Len(pkts)}

\* how often the log has entry x
Logged(x) == Cardinality({i \in 1..Len(mbuf_log) : mbuf_log[i] = x})

\* C30: every buffer a burst receive returned has been handed to
\* process_packet exactly once and freed exactly once, right after that
\* call returned, unless process_burst has not reached it yet, in which case
\* neither has happened; every buffer allocated in the warm-up was processed
\* and then freed; nothing is freed that was not just processed, and nothing
\* is processed after it was freed, whatever the frame in the buffer.
C30_BuffersReleasedOnce ==
    LET n == Len(mbuf_log) IN
    /\ \A i \in 1..n :
          /\ mbuf_log[i][1] = "alloc" =>
                (i < n /\ mbuf_log[i + 1] = <<"process", mbuf_log[i][2]>>)
          /\ mbuf_log[i][1] = "process" =>
                (i < n /\ mbuf_log[i + 1] = <<"free", mbuf_log[i][2]>>)
          /\ mbuf_log[i][1] = "free" =>
                (i > 1 /\ mbuf_log[i - 1] = <<"process", mbuf_log[i][2]>>)
          /\ (mbuf_log[i][1] = "process" /\ mbuf_log[i][2] = DummyMbuf) =>
                (i > 1 /\ mbuf_log[i - 1] = <<"alloc", DummyMbuf>>)
          /\ mbuf_log[i][2] \in (1..delivered) \cup {DummyMbuf}
    /\ \A h \in 1..delivered :
          IF pc = "process_burst" /\ h \in Held
          THEN Logged(<<"process", h>>) = 0 /\ Logged(<<"free", h>>) = 0
          ELSE Logged(<<"process", h>>) = 1 /\ Logged(<<"free", h>>) = 1
    /\ \A i \in 1..Len(pkts) : i <= burst_i => pkts[i] = 0
    /\ Logged(<<"free", DummyMbuf>>) = Logged(<<"alloc", DummyMbuf>>)
    /\ Logged(<<"free", DummyMbuf>>) <= warm_i

\* a warm-up buffer and a burst of two, the first filtered out and the
\* second rejected by parse, have all been processed and freed
C30_Witness ==
    /\ pc = "poll_check"
    /\ mbuf_log = <<<<"alloc", DummyMbuf>>, <<"process", DummyMbuf>>, <<"free", DummyMbuf>>,
                    <<"process", 1>>, <<"free", 1>>, <<"process", 2>>, <<"free", 2>>>>
    /\ pkts = <<0, 0>>
    /\ stats_.packets_received = U64(2)
    /\ stats_.parse_errors = U64(1)
    /\ calls = U64(3)

\* C31: for a burst of count packets, 0 <= count <= BURST_SIZE, the loop
\* calls process_packet on the indexes 0..count-1, each once and in ascending
\* order, and frees each right after; while it handles index i it prefetches
\* index i + 1 exactly when i + 1 < count and index i + 2 exactly when
\* i + 2 < count; it reads no index >= count; a count of 0 reads nothing.
C31_BurstBounds ==
    cold.op = "burst" =>
       LET a == cold.accesses
           count == cold.count
           Is(op, x) == x[1] = op
           IsProcess(x) == Is("process_packet", x)
           IsFree(x) == Is("free", x)
           IsL1(x) == Is("prefetch0", x)
           IsL2(x) == Is("prefetch_l2", x)
           At(op, j) == {k \in 1..Len(a) : a[k] = <<op, j>>}
       IN  /\ \A k \in 1..Len(a) : a[k][2] \in 0..(count - 1)
           /\ SelectSeq(a, IsProcess) = [k \in 1..count |-> <<"process_packet", k - 1>>]
           /\ SelectSeq(a, IsFree) = [k \in 1..count |-> <<"free", k - 1>>]
           /\ \A k \in 1..Len(a) :
                 IsProcess(a[k]) => (k < Len(a) /\ a[k + 1] = <<"free", a[k][2]>>)
           /\ SelectSeq(a, IsL1) = [k \in 1..(count - 1) |-> <<"prefetch0", k>>]
           /\ SelectSeq(a, IsL2) = [k \in 1..(count - 2) |-> <<"prefetch_l2", k + 1>>]
           /\ \A i \in 0..(count - 1) :
                 \A k \in At("process_packet", i) :
                    /\ (i + 1 < count) =>
                          \E q \in At("prefetch0", i + 1) :
                             q < k /\ \A r \in At("process_packet", i - 1) : r < q
                    /\ (i + 2 < count) =>
                          \E q \in At("prefetch_l2", i + 2) :
                             q < k /\ \A r \in At("process_packet", i - 1) : r < q
           /\ count = 0 => a = << >>

\* a full burst of BURST_SIZE packets has been processed
C31_Witness ==
    /\ cold.op = "burst"
    /\ cold.count = BURST_SIZE
    /\ Len(cold.accesses) = 4 * BURST_SIZE - 3
    /\ cold.accesses[Len(cold.accesses)] = <<"free", BURST_SIZE - 1>>

\* the records the ring has accepted since it was mapped, oldest first,
\* behind those it held when it was mapped
Accepted ==
    LET Ok(t) == t.ok
        taken == SelectSeq(offered, Ok)
    IN  ring_at_map[1] \o [k \in 1..Len(taken) |-> taken[k].bbo]

\* the buffers of polled bursts that process_packet has been called on
PolledSoFar == {k \in 1..Len(mbuf_log) : mbuf_log[k][1] = "process" /\ mbuf_log[k][2] > 0}

\* C32: process_packet is called on the buffers in the order they arrived:
\* warm-up buffers before any polled one, polled ones by arrival number; each
\* call hands at most one record to try_publish, the record of its packet,
\* and an accepted record goes behind the unread ones; so what the ring
\* holds is the tail of the accepted records in arrival order, each once.
C32_PublishOrder ==
    [][/\ ring_at_map # NULL =>
             \E k \in 1..(Len(Accepted) + 1) : ring = SubSeq(Accepted, k, Len(Accepted))
       /\ IF Called
          THEN /\ pc = "warm_up" => (delivered = 0 /\ PolledSoFar = {})
               /\ pc = "process_burst" =>
                     /\ mbuf_log'[Len(mbuf_log) + 1] =
                           <<"process", Cardinality(PolledSoFar) + 1>>
                     /\ Cardinality(PolledSoFar) + 1 = delivered - Len(pkts) + burst_i + 1
               /\ offered' = offered \o (IF last'.tried = NULL THEN << >> ELSE last'.tried)
               /\ Len(offered') <= Len(offered) + 1
               /\ \/ ring' = ring /\ (last'.tried # NULL => ~last'.tried[1].ok)
                  \/ /\ last'.tried # NULL /\ last'.tried[1].ok
                     /\ ring' = Append(ring, last'.tried[1].bbo)
                     /\ last'.tried[1].bbo = to_gateway(bbo_pool_'.pool_[last'.bbo[1]])
          ELSE offered' = offered
      ]_vars

\* a warm-up record and the record of the first polled packet are in the
\* ring in that order; the record of the second polled packet was refused
C32_Witness ==
    /\ pc = "poll_check"
    /\ Len(offered) = 3
    /\ offered[1].ok /\ offered[2].ok /\ ~offered[3].ok
    /\ offered[1].bbo.symbol[1] = 87
    /\ offered[2].bbo.symbol[1] = 65
    /\ Len(ring) = 1 /\ ring[1] = offered[2].bbo
    /\ delivered = 2

\* C33: initialize() runs the EAL step, the mbuf-pool step, the port step and
\* the shared-memory step in this order and stops at the first that fails:
\* a step has left its effect only if every earlier step succeeded, after a
\* failure no later step has run, dpdk_initialized_ is true only when all
\* four succeeded, and ring_buffer_ is non-null only if the shared-memory
\* step mapped a ring.  (The destructor, at exit, stops the port and drops
\* the ring pointer.)
C33_InitOrder ==
    LET destroyed == pc = "exited"
        shm_ran == shm_ops # << >>
        shm_done == /\ ring_at_map # NULL /\ shm_exists
                    /\ shm_ran => /\ shm_ops[Len(shm_ops)] \in {"close", "new"}
                                  /\ "mmap" \in {shm_ops[i] : i \in 1..Len(shm_ops)}
    IN /\ mbuf_pool_ # NULL => eal_up
       /\ port_started => mbuf_pool_ # NULL
       /\ (shm_ran /\ ~(destroyed /\ dpdk_initialized_)) => port_started
       /\ shm_ran => (mbuf_pool_ # NULL /\ eal_up)
       /\ pc = "init_mempool" => (eal_up /\ mbuf_pool_ = NULL /\ ~port_started /\ ~shm_ran)
       /\ pc = "init_port" => (mbuf_pool_ # NULL /\ ~port_started /\ ~shm_ran)
       /\ pc = "init_shared_memory" => (port_started /\ ~shm_ran /\ ring_buffer_ = NULL)
       /\ pc \in {"init_dpdk_eal", "init_mempool", "init_port", "init_shared_memory"}
              => (~dpdk_initialized_ /\ ~init_failed)
       /\ dpdk_initialized_ <=> (shm_done /\ ~init_failed)
       /\ dpdk_initialized_ => (eal_up /\ mbuf_pool_ # NULL /\ (~destroyed => port_started))
       /\ ring_buffer_ # NULL => (shm_done /\ dpdk_initialized_)
       /\ (dpdk_initialized_ /\ ~destroyed) => ring_buffer_ # NULL
       /\ init_failed =>
              /\ ring_buffer_ = NULL /\ ~dpdk_initialized_
              /\ mbuf_pool_ = NULL => (~port_started /\ ~shm_ran)
              /\ ~port_started => ~shm_ran
              /\ shm_ran => shm_ops[Len(shm_ops)] \notin {"close", "new"}
              /\ ring_at_map = NULL

\* the port step failed after the EAL and the mbuf pool were set up:
\* initialize() has returned false and the shared-memory step never ran
C33_Witness ==
    /\ pc = "init_failed" /\ init_failed
    /\ eal_up /\ mbuf_pool_ # NULL /\ ~port_started
    /\ shm_ops = << >> /\ ring_buffer_ = NULL /\ ~dpdk_initialized_

\* C34: with statistics enabled and no reset_stats(), after every
\* process_packet the pool head equals packets_processed modulo 2^32 (parse
\* acquires one slot for each record it returns and none otherwise),
\* ring_buffer_full is at most packets_processed, and packets_dropped is 0.
C34_PoolCounterCoupling ==
    config_.enable_stats =>
        /\ bbo_pool_.head_ = Low32(stats_.packets_processed)
        /\ ~WBelow(stats_.packets_processed, stats_.ring_buffer_full)
        /\ stats_.packets_dropped = U64(0)

\* packets_processed has passed 2^32 and the head has wrapped with it; one
\* of the records met a full ring
C34_Witness ==
    /\ config_.enable_stats
    /\ stats_.packets_processed = <<0, 1, 0, 1>>
    /\ bbo_pool_.head_ = <<0, 1>>
    /\ stats_.ring_buffer_full = U64(1)
    /\ stats_.parse_errors = U64(0)

\* C35: in benchmark mode the statistics thread leaves its loop only after
\* stop() has cleared the running flag, however its steps interleave with
\* those of the main thread.
C35_StatsThreadExitsOnlyAfterStop ==
    stats_thread.pc = "done" => stop_seen

\* C36: on every way out of main the global pointer is cleared before the
\* receiver is destroyed: once main has returned, and with it the receiver
\* is gone, a signal handler that is still installed finds g_receiver null.
C36_PointerClearedBeforeDestruction ==
    (pc = "exited" /\ handlers) => g_receiver = NULL

====
